---- MODULE Spec2Model ----
(***************************************************************************)
(* A model of panser's streaming transcode pipeline (src/src/panser.rs):   *)
(* the reading thread spawned by Panser::run, the channel, the writing     *)
(* loop `write`, and the framing readers and writers, at byte level.       *)
(*                                                                         *)
(* Bytes are the integers 0..255.  The codecs are external libraries; the  *)
(* model covers the JSON decoder on the byte alphabet                      *)
(* {NUL, whitespace, digits, '{', '}'} and the MessagePack and URL         *)
(* encoders on the values that alphabet can produce (unsigned integers and *)
(* the empty map), where it computes what the libraries compute.           *)
(***************************************************************************)
EXTENDS Integers, Sequences, FiniteSets, TLC

(***************************************************************************)
(* Bounds of the model.                                                    *)
(***************************************************************************)
\* Largest number of messages framed into one source.
MaxFrames == 2
\* Largest number of payloads of one framing round trip.
MaxRtFrames == 2
\* Largest payload length of a framing round trip.
MaxRtLen == 2

(***************************************************************************)
(* Byte-level helpers.                                                     *)
(***************************************************************************)
RECURSIVE Flatten(_)
Flatten(ss) == IF ss = <<>> THEN <<>> ELSE Head(ss) \o Flatten(Tail(ss))

\* Sequences over S of length at most n.
SeqsUpTo(S, n) == UNION {[1..k -> S] : k \in 0..n}

\* [x; n]: n copies of x.
Repeat(x, n) == [i \in 1..n |-> x]

Contains(s, b) == \E i \in 1..Len(s) : s[i] = b

\* byteorder BigEndian::write_u32 (panser.rs:510) of a length that fits u32.
BE32(n) ==
    << (n \div 16777216) % 256, (n \div 65536) % 256, (n \div 256) % 256, n % 256 >>

\* byteorder read_u32::<BigEndian> (panser.rs:406).
ReadU32LE(b) == b[4] * 16777216 + b[3] * 65536 + b[2] * 256 + b[1]
ReadU32BE(b) == b[1] * 16777216 + b[2] * 65536 + b[3] * 256 + b[4]

(***************************************************************************)
(* Framing (lib.rs Framing) and the other configuration enums.             *)
(***************************************************************************)
NoFraming == [kind |-> "None", d |-> 0]
Sized == [kind |-> "Sized", d |-> 0]
Delimited(b) == [kind |-> "Delimited", d |-> b]

\* Error::code (lib.rs:464-485); 0 stands for success as in main.
ErrorCode(kind) ==
    CASE kind = "Ok" -> 0
      [] kind = "Eof" -> 0
      [] kind \in {"Bincode", "Cbor", "Envy", "Json", "MsgpackDecode", "MsgpackEncode",
                   "Pickle", "TomlDecode", "TomlEncode", "UrlDecode", "UrlEncode",
                   "Yaml"} -> 1
      [] kind = "Generic" -> 2
      [] kind = "Io" -> 3
      [] kind = "ParseInt" -> 4
      [] kind = "Utf8" -> 5

(***************************************************************************)
(* The codecs.  serde_json::from_slice on the model's alphabet: optional   *)
(* whitespace, then an unsigned integer without leading zero or an empty   *)
(* object (whitespace allowed between the braces), then optional           *)
(* whitespace; anything else is a JSON error.                              *)
(***************************************************************************)
IsWs(b) == b \in {9, 10, 13, 32}
IsDigit(b) == b \in 48..57
LBrace == 123
RBrace == 125

\* The value of a decimal numeral (the numerals of the model stay far below
\* the u64 range serde_json keeps as an integer).
RECURSIVE DecimalValue(_)
DecimalValue(ds) ==
    IF ds = <<>> THEN 0
    ELSE 10 * DecimalValue(SubSeq(ds, 1, Len(ds) - 1)) + (ds[Len(ds)] - 48)

NumValue(n) == [t |-> "num", n |-> n]
MapValue == [t |-> "map", n |-> 0]
DecodeOk(v) == [ok |-> TRUE, value |-> v, err |-> "Ok"]
DecodeErr(e) == [ok |-> FALSE, value |-> MapValue, err |-> e]

DecodeJson(buf) ==
    LET nonWs == {i \in 1..Len(buf) : ~IsWs(buf[i])} IN
    IF nonWs = {} THEN DecodeErr("Json")
    ELSE
      LET first == CHOOSE i \in nonWs : \A j \in nonWs : i <= j
          last  == CHOOSE i \in nonWs : \A j \in nonWs : j <= i
          body  == SubSeq(buf, first, last)
      IN  IF body[1] = LBrace
          THEN IF /\ Len(body) >= 2
                  /\ body[Len(body)] = RBrace
                  /\ \A i \in 2..(Len(body) - 1) : IsWs(body[i])
               THEN DecodeOk(MapValue)
               ELSE DecodeErr("Json")
          ELSE IF /\ \A i \in 1..Len(body) : IsDigit(body[i])
                  /\ (Len(body) = 1 \/ body[1] # 48)
               THEN DecodeOk(NumValue(DecimalValue(body)))
               ELSE DecodeErr("Json")

\* unimplemented!() panics the calling thread; the panic carries a message,
\* no Error value.
DecodeCrash == [ok |-> FALSE, value |-> MapValue, err |-> "Unimplemented"]

\* deserialize (panser.rs:294-313); the model carries the JSON and Hjson arms,
\* which are the same serde_json call, and the Envy arm.
Deserialize(input, from) ==
    CASE from \in {"Json", "Hjson"} -> DecodeJson(input)
      [] from = "Envy" -> DecodeCrash

EncodeOk(bs) == [ok |-> TRUE, bytes |-> bs, err |-> "Ok"]
EncodeErr(e) == [ok |-> FALSE, bytes |-> <<>>, err |-> e]

\* rmp_serde::to_vec of an unsigned integer or an empty map.
EncodeMsgpack(v) ==
    IF v.t = "map" THEN <<128>>
    ELSE IF v.n < 128 THEN <<v.n>>
    ELSE IF v.n < 256 THEN <<204, v.n>>
    ELSE IF v.n < 65536 THEN <<205, v.n \div 256, v.n % 256>>
    ELSE <<206>> \o BE32(v.n)

\* serialize (panser.rs:319-336), the Msgpack and Url arms.  serde_urlencoded
\* encodes an empty map as the empty string and rejects a top-level number.
Serialize(value, to) ==
    CASE to = "Msgpack" -> EncodeOk(EncodeMsgpack(value))
      [] to = "Url" -> IF value.t = "map" THEN EncodeOk(<<>>) ELSE EncodeErr("UrlEncode")

(***************************************************************************)
(* The frame readers: one iteration of each reading loop, as a function of *)
(* the source bytes and the read position.  The result is a frame (the     *)
(* buffer handed to deserialize) or the end of the reading loop.           *)
(***************************************************************************)
FrameRead(buf, pos) == [kind |-> "frame", buf |-> buf, pos |-> pos]
\* The reader returned Err(Error::Eof).
EofRead(pos) == [kind |-> "eof", buf |-> <<>>, pos |-> pos]
\* The reader returned Ok(()).
EndRead(pos) == [kind |-> "end", buf |-> <<>>, pos |-> pos]

\* One iteration of read_exact (panser.rs:397-414): both read_exact calls map
\* UnexpectedEof, whatever the number of bytes that were left, to Error::Eof.
ReadExactFrame(src, pos) ==
    IF Len(src) - pos < 4 THEN EofRead(Len(src))
    ELSE LET n == ReadU32BE(SubSeq(src, pos + 1, pos + 4)) IN
         IF Len(src) - (pos + 4) < n THEN EofRead(Len(src))
         ELSE FrameRead(SubSeq(src, pos + 5, pos + 4 + n), pos + 4 + n)

\* One iteration of read_until (panser.rs:426-441): BufRead::read_until appends
\* the bytes up to and including the delimiter, or up to the end of the source.
ReadUntilFrameDropsTail(src, pos, d) ==
    LET hits == {i \in (pos + 1)..Len(src) : src[i] = d} IN
    IF hits = {} THEN EndRead(Len(src))
    ELSE LET stop == CHOOSE i \in hits : \A j \in hits : i <= j IN
         FrameRead(SubSeq(src, pos + 1, stop), stop)
ReadUntilFrameLastMarker(src, pos, d) ==
    LET hits == {i \in (pos + 1)..Len(src) : src[i] = d}
        stop == IF hits = {} THEN Len(src) ELSE CHOOSE i \in hits : \A j \in hits : j <= i
        buf  == SubSeq(src, pos + 1, stop)
    IN  IF buf = <<>> THEN EndRead(pos) ELSE FrameRead(buf, stop)
ReadUntilFrame(src, pos, d) ==
    LET hits == {i \in (pos + 1)..Len(src) : src[i] = d}
        stop == IF hits = {} THEN Len(src) ELSE CHOOSE i \in hits : \A j \in hits : i <= j
        buf  == SubSeq(src, pos + 1, stop)
    IN  IF buf = <<>> THEN EndRead(pos) ELSE FrameRead(buf, stop)

\* The unframed branch of read (panser.rs:458-464): read_to_end, one frame if
\* any byte was read.
ReadToEndFrameEmptyIsFrame(src, pos) ==
    FrameRead(SubSeq(src, pos + 1, Len(src)), Len(src))
ReadToEndFrame(src, pos) ==
    LET buf == SubSeq(src, pos + 1, Len(src)) IN
    IF Len(buf) > 0 THEN FrameRead(buf, Len(src)) ELSE EndRead(Len(src))

\* read (panser.rs:449-467): the reader chosen by the input framing.
ReadFrame(framing, src, pos) ==
    CASE framing.kind = "Sized" -> ReadExactFrame(src, pos)
      [] framing.kind = "Delimited" -> ReadUntilFrame(src, pos, framing.d)
      [] framing.kind = "None" -> ReadToEndFrame(src, pos)

(***************************************************************************)
(* The frame writers: the bytes each sink call of `write` offers.          *)
(***************************************************************************)
\* Digits of a byte in a base, most significant first, as ASCII ("{:b}", "{}",
\* "{:0X}", "{:o}": no width is given, so no padding is produced).
DigitChar(v) == IF v < 10 THEN 48 + v ELSE 55 + v
RECURSIVE Numeral(_, _)
Numeral(b, base) ==
    IF b < base THEN <<DigitChar(b)>>
    ELSE Numeral(b \div base, base) \o <<DigitChar(b % base)>>

RadixBase(r) ==
    CASE r = "Binary" -> 2 [] r = "Decimal" -> 10 [] r = "Hexadecimal" -> 16 [] r = "Octal" -> 8

\* write_data (panser.rs:476-490): the bytes offered to the writer.
WriteDataSpaceBetween(data, radix) ==
    IF radix = "None" THEN data
    ELSE LET text == Flatten([i \in 1..Len(data) |->
                                 Numeral(data[i], RadixBase(radix)) \o <<32>>])
         IN  SubSeq(text, 1, Len(text) - 1)
WriteData(data, radix) ==
    IF radix = "None" THEN data
    ELSE Flatten([i \in 1..Len(data) |-> Numeral(data[i], RadixBase(radix)) \o <<32>>])

\* The length header (panser.rs:506-515).
FrameHeaderCountsItself(encoded, framing) ==
    IF framing.kind = "Sized" THEN BE32(Len(encoded) + 4) ELSE <<>>
FrameHeader(encoded, framing) ==
    IF framing.kind = "Sized" THEN BE32(Len(encoded)) ELSE <<>>

\* The delimiter (panser.rs:517-532), always raw.
FrameMarkerAbsent(framing) == <<>>
FrameMarker(framing) ==
    IF framing.kind = "Delimited" THEN Repeat(framing.d, 1) ELSE <<>>

\* All bytes of one output message, when every sink call accepts all it is offered.
FrameBytes(encoded, framing, radix) ==
    WriteData(FrameHeader(encoded, framing), radix)
        \o WriteData(encoded, radix) \o FrameMarker(framing)

(***************************************************************************)
(* The delimiter string (panser.rs:376-385).  A string is the sequence of  *)
(* its characters, each an ASCII code.                                     *)
(***************************************************************************)
\* The largest u8.
U8Max == 255

\* char::to_digit: the value of a digit character in a radix, -1 for None.
ToDigit(c, rdx) ==
    LET v == IF c \in 48..57 THEN c - 48
             ELSE IF c \in 97..122 THEN c - 87
             ELSE IF c \in 65..90 THEN c - 55
             ELSE 0 - 1
    IN  IF v >= 0 /\ v < rdx THEN v ELSE 0 - 1

ParseOk(v) == [ok |-> TRUE, value |-> v]
ParseErr == [ok |-> FALSE, value |-> 0]

\* The digit loop of u8::from_str_radix: a character that is no digit of the
\* radix, or a value that leaves the u8 range, is a ParseIntError.
RECURSIVE AccumulateU8(_, _, _)
AccumulateU8(digits, rdx, acc) ==
    IF digits = <<>> THEN ParseOk(acc)
    ELSE LET d == ToDigit(Head(digits), rdx) IN
         IF d < 0 THEN ParseErr
         ELSE IF acc * rdx + d > U8Max THEN ParseErr
         ELSE AccumulateU8(Tail(digits), rdx, acc * rdx + d)

\* u8::from_str_radix: an optional '+', then at least one digit.
FromStrRadix(src, rdx) ==
    IF src = <<>> THEN ParseErr
    ELSE LET digits == IF src[1] = 43 THEN Tail(src) ELSE src IN
         IF digits = <<>> THEN ParseErr ELSE AccumulateU8(digits, rdx, 0)

\* The arms of the match on the last character (panser.rs:377-383): 'b', 'd',
\* 'h' and 'o' select a radix for the characters before them; 0 stands for the
\* default arm, which reads the whole string as hexadecimal.
SuffixRadixHexOnly(c) == IF c = 104 THEN 16 ELSE 0
SuffixRadix(c) ==
    CASE c = 98 -> 2
      [] c = 100 -> 10
      [] c = 104 -> 16
      [] c = 111 -> 8
      [] OTHER -> 0

FramingOk(f) == [kind |-> "ok", framing |-> f, err |-> "Ok"]
FramingErr(e) == [kind |-> "err", framing |-> NoFraming, err |-> e]
\* The call panicked on the thread of run.
FramingPanic == [kind |-> "panic", framing |-> NoFraming, err |-> "Ok"]

\* to_framing_delimited (panser.rs:376-385); chars().last().unwrap() panics on
\* the empty string.
ToFramingDelimited(s) ==
    IF s = <<>> THEN FramingPanic
    ELSE LET rdx == SuffixRadix(s[Len(s)])
             parsed == IF rdx = 0 THEN FromStrRadix(s, 16)
                       ELSE FromStrRadix(SubSeq(s, 1, Len(s) - 1), rdx)
         IN  IF parsed.ok THEN FramingOk(Delimited(parsed.value))
             ELSE FramingErr("ParseInt")

(***************************************************************************)
(* The state of one run.                                                   *)
(***************************************************************************)
VARIABLES
    \* The configuration resolved by Panser::run before the thread is spawned.
    inFraming, outFraming, from, to, radix,
    \* The source: its bytes, the read position, and the frame-read attempt
    \* that fails with an I/O error (0: none).
    source, srcPos, srcFailAt,
    \* Whether the source has reached its end (a pipe that is still open has
    \* not), the readers after the current one, each with its bytes and its
    \* input format, and the number of the current reader.
    srcEof, pending, curFile,
    \* The messages the source was built from (history, for the properties).
    frames,
    \* The reading thread: where it is, the bytes the read call under way has
    \* taken from the reader while it waits for more, the buffer it read, the
    \* frames it has read, the error it panicked with, and the frame that error
    \* is about.
    prodPc, taken, pbuf, nread, prodErr, prodFailFrame,
    \* For each frame read: the reader it came from, the input format of that
    \* reader and the buffer (history, for the properties).
    readLog,
    \* The channel: values in flight, each with the number of its frame.
    chan,
    \* The writing loop: where it is, the message it holds, the encoded bytes,
    \* the error it returned, the frame that error is about, and the number of
    \* messages written and flushed.
    consPc, cur, enc, consErr, consFailFrame, nwritten,
    \* The sink: the bytes written, the frame each byte belongs to, the number
    \* of bytes flushed, the calls made, the call that fails with an I/O error
    \* (0: none), and whether a write call may accept fewer bytes than offered.
    sink, sinkTag, flushed, sinkCalls, sinkFailAt, sinkShort,
    \* The bytes of the text of the write_data under way that the sink has taken.
    wdone,
    \* The positions of the sink that hold a marker the marker call wrote
    \* (history, for the properties).
    markAt,
    \* Panser::run: where it is, what it returned, how often it returned.
    runPc, result, returns,
    \* A framing round trip: the framing, the payloads, the bytes written, the
    \* number of payloads written, the read position and the frames read back.
    rtMode, rtPayloads, rtWire, rtWritten, rtPos, rtFrames, rtPc,
    \* The builder (panser.rs:42-52): the number of input files (0: stdin),
    \* whether an output file is named, the delimiter strings, the sized flags.
    inputs, output, delimitedInput, delimitedOutput, sizedInput, sizedOutput,
    \* The builder's input format ("None": not set) and the input files named,
    \* each with its extension and the messages it holds.
    fromOpt, files,
    \* The file system: the input file that cannot be opened (0: none) and
    \* whether the output file cannot be created.
    inputMissing, outputDenied,
    \* The start of Panser::run (panser.rs:143-210): where it is, the input
    \* files opened so far, and whether the output file was created (truncated).
    setupPc, opened, created,
    \* One call of to_framing_delimited: the string, how the string was made
    \* (history, for the properties), the result, and whether it was called.
    dstr, dmeant, dres, dPc,
    \* One length header (panser.rs:506-516): the length of the encoded payload,
    \* the four bytes of the header, the length of the payload bytes written
    \* after it, and the position of the call.
    hLen, hBytes, hWritten, hPc

configVars == <<inFraming, outFraming, from, to, radix>>
sourceVars == <<source, srcPos, srcFailAt, frames, srcEof, pending, curFile>>
prodVars == <<prodPc, taken, pbuf, nread, prodErr, prodFailFrame, readLog>>
consVars == <<consPc, cur, enc, consErr, consFailFrame, nwritten>>
sinkVars == <<sink, sinkTag, flushed, sinkCalls, sinkFailAt, sinkShort, wdone, markAt>>
runVars == <<runPc, result, returns>>
rtVars == <<rtMode, rtPayloads, rtWire, rtWritten, rtPos, rtFrames, rtPc>>
pipeVars == <<configVars, sourceVars, prodVars, chan, consVars, sinkVars, runVars>>
builderVars ==
    <<inputs, output, delimitedInput, delimitedOutput, sizedInput, sizedOutput, fromOpt,
      files>>
fsVars == <<inputMissing, outputDenied>>
setupVars == <<builderVars, fsVars, setupPc, opened, created>>
delimVars == <<dstr, dmeant, dres, dPc>>
headerVars == <<hLen, hBytes, hWritten, hPc>>
vars == <<pipeVars, rtVars, setupVars, delimVars, headerVars>>

(***************************************************************************)
(* The inputs of the pipeline.                                             *)
(***************************************************************************)
\* The messages: "1" (a number), "{}" (an empty map) and "{" (not JSON).
Payloads == { <<49>>, <<LBrace, RBrace>>, <<LBrace>> }
Newline == 10
InFramings == {NoFraming, Sized, Delimited(Newline)}
OutFramings == {NoFraming, Sized, Delimited(Newline)}
ToFormats == {"Msgpack", "Url"}

\* The bytes of a source holding the messages fs under a framing, as the tests
\* build them: sized messages carry their length, delimited ones their marker.
SourceOf(fs, framing) ==
    CASE framing.kind = "Sized" ->
            Flatten([i \in 1..Len(fs) |-> BE32(Len(fs[i])) \o fs[i]])
      [] framing.kind = "Delimited" ->
            Flatten([i \in 1..Len(fs) |-> fs[i] \o <<framing.d>>])
      [] framing.kind = "None" -> Flatten(fs)

\* Sink calls of one message: header or marker, payload, flush.
CallsPerMessage(framing) == IF framing.kind = "None" THEN 2 ELSE 3

\* What can go wrong with the environment of one run, one thing at most: the
\* source ends early (cut), a frame read fails (src), a sink call fails (sink).
FaultPlans(fs, inF, outF) ==
    LET full == Len(SourceOf(fs, inF))
        none == [cut |-> full, src |-> 0, sink |-> 0]
    IN  {none}
        \cup {[none EXCEPT !.cut = c] : c \in 0..(full - 1)}
        \cup {[none EXCEPT !.src = k] : k \in 1..(Len(fs) + 1)}
        \cup {[none EXCEPT !.sink = k] : k \in 1..(Len(fs) * CallsPerMessage(outF))}

NoMessage == [value |-> MapValue, frame |-> 0]

RtIdle ==
    /\ rtMode = NoFraming
    /\ rtPayloads = <<>>
    /\ rtWire = <<>>
    /\ rtWritten = 0
    /\ rtPos = 0
    /\ rtFrames = <<>>
    /\ rtPc = "idle"

\* Option<String> of the builder.
NoString == [some |-> FALSE, s |-> <<>>]
SomeString(s) == [some |-> TRUE, s |-> s]

NoResult == [kind |-> "none", framing |-> NoFraming, err |-> "Ok"]
NoMeaning == [value |-> 0, base |-> 16, lower |-> FALSE, pad |-> 0, suffix |-> "odd"]

\* A length as two 16-bit halves: hi * 2^16 + lo.
NoLength == [hi |-> 0, lo |-> 0]

HeaderIdle ==
    /\ hLen = NoLength
    /\ hBytes = <<>>
    /\ hWritten = NoLength
    /\ hPc = "idle"

DelimIdle ==
    /\ dstr = <<>>
    /\ dmeant = NoMeaning
    /\ dres = NoResult
    /\ dPc = "idle"

\* The delimiter string that names a framing's marker: hexadecimal, suffix h.
DelimiterOption(framing) ==
    IF framing.kind = "Delimited"
    THEN SomeString(Numeral(framing.d, 16) \o <<104>>)
    ELSE NoString

\* The input format of stdin (panser.rs:181): the builder's format if set,
\* else JSON.
StdinFrom(explicit) == IF explicit = "None" THEN "Json" ELSE explicit

\* Panser::run reads stdin, writes stdout and has resolved both framings.
StdinSetup ==
    /\ inputs = 0
    /\ files = <<>>
    /\ output = FALSE
    /\ delimitedInput = DelimiterOption(inFraming)
    /\ delimitedOutput = DelimiterOption(outFraming)
    /\ sizedInput = (inFraming.kind = "Sized")
    /\ sizedOutput = (outFraming.kind = "Sized")
    /\ inputMissing = 0
    /\ outputDenied = FALSE
    /\ setupPc = "spawn"
    /\ opened = 0
    /\ created = FALSE

\* The same with no input format set on the builder: the format is JSON.
SetupDone ==
    /\ fromOpt = "None"
    /\ StdinSetup

\* One reader (stdin) whose bytes are all there, the end included.
OneSource ==
    /\ srcEof = TRUE
    /\ pending = <<>>

PipeStart ==
    /\ srcPos = 0
    /\ curFile = 1
    /\ readLog = <<>>
    /\ prodPc = "read"
    /\ taken = 0
    /\ pbuf = <<>>
    /\ nread = 0
    /\ prodErr = "Ok"
    /\ prodFailFrame = 0
    /\ chan = <<>>
    /\ consPc = "recv"
    /\ cur = NoMessage
    /\ enc = <<>>
    /\ consErr = "Ok"
    /\ consFailFrame = 0
    /\ nwritten = 0
    /\ sink = <<>>
    /\ sinkTag = <<>>
    /\ flushed = 0
    /\ sinkCalls = 0
    /\ wdone = 0
    /\ markAt = {}
    /\ runPc = "running"
    /\ result = "Ok"
    /\ returns = 0

\* The state when Panser::run has spawned the reading thread (panser.rs:222)
\* and is about to call write (panser.rs:254), reading stdin.
Init ==
    /\ inFraming \in InFramings
    /\ outFraming \in OutFramings
    /\ from = "Json"
    /\ to \in ToFormats
    /\ radix = "None"
    /\ sinkShort = FALSE
    /\ frames \in SeqsUpTo(Payloads, MaxFrames)
    /\ inFraming.kind = "None" => Len(frames) <= 1
    /\ \E plan \in FaultPlans(frames, inFraming, outFraming) :
          /\ source = SubSeq(SourceOf(frames, inFraming), 1, plan.cut)
          /\ srcFailAt = plan.src
          /\ sinkFailAt = plan.sink
    /\ OneSource
    /\ PipeStart
    /\ RtIdle
    /\ SetupDone
    /\ DelimIdle
    /\ HeaderIdle

(***************************************************************************)
(* The reading thread (panser.rs:222-253).                                 *)
(***************************************************************************)
\* The sender is dropped when the thread's closure ends or unwinds.
SenderAlive == prodPc \in {"read", "send"}
\* The receiver is dropped when write returns.
ReceiverAlive == consPc \notin {"ok", "err"}

\* The closure's or_else on the result of read (panser.rs:225-232): Error::Eof
\* becomes Ok, any other error stays and is the panic payload (panser.rs:248-251).
ClosureResultKeepsEof(e) == e
ClosureResult(e) == IF e = "Eof" THEN "Ok" ELSE e

\* A read call waits while the source is open and has not delivered what the
\* call reads: the header and the body (read_exact, panser.rs:399, 408), the
\* delimiter (read_until, panser.rs:428), the end (read_to_end, panser.rs:459).
NeedsMoreUntilEnd(framing, src, pos) == TRUE
NeedsMore(framing, src, pos) ==
    CASE framing.kind = "Sized" -> ReadExactFrame(src, pos).kind = "eof"
      [] framing.kind = "Delimited" -> ~\E i \in (pos + 1)..Len(src) : src[i] = framing.d
      [] framing.kind = "None" -> TRUE

ReadBlocks == ~srcEof /\ NeedsMore(inFraming, source, srcPos)

\* read returned Ok for the current reader: the for loop (panser.rs:223) takes
\* the next reader and its format, or the closure ends.
ReaderEndsRun(pos) ==
    /\ prodPc' = "done"
    /\ srcPos' = pos
    /\ UNCHANGED <<source, from, pending, curFile>>
ReaderEnds(pos) ==
    IF pending = <<>>
    THEN /\ prodPc' = "done"
         /\ srcPos' = pos
         /\ UNCHANGED <<source, from, pending, curFile>>
    ELSE /\ prodPc' = "read"
         /\ source' = Head(pending).bytes
         /\ from' = Head(pending).from
         /\ srcPos' = 0
         /\ pending' = Tail(pending)
         /\ curFile' = curFile + 1

\* The read call under way (read_exact, panser.rs:399, 408; read_until,
\* panser.rs:428; read_to_end, panser.rs:459) waits for bytes of an open
\* source: it takes those that have arrived and waits on.
P_Take ==
    /\ prodPc = "read"
    /\ ReadBlocks
    /\ srcPos + taken < Len(source)
    /\ taken' = Len(source) - srcPos
    /\ UNCHANGED <<configVars, sourceVars, prodPc, pbuf, nread, prodErr, prodFailFrame,
                   readLog, chan, consVars, sinkVars, runVars, rtVars, setupVars,
                   delimVars, headerVars>>

\* The bytes a failing iteration has taken when the error reaches it: those
\* it took while waiting, or more.
\* A call that the bytes themselves do not end (read_to_end, read_until without
\* a delimiter ahead, read_exact short of its bytes) asks the reader again
\* after the last byte, and that call can fail too.
FailOffsets ==
    LET extent == ReadFrame(inFraming, source, srcPos).pos - srcPos
        last   == IF NeedsMore(inFraming, source, srcPos) THEN extent ELSE extent - 1
    IN  taken..(IF last > taken THEN last ELSE taken)

\* One reading iteration: the next frame of the source, its end, or an I/O
\* error of one of its read calls.
P_Read ==
    /\ prodPc = "read"
    /\ srcFailAt = nread + 1 \/ ~ReadBlocks
    /\ taken' = 0
    /\ IF srcFailAt = nread + 1
       THEN /\ prodPc' = "panicked"
            /\ prodErr' = "Io"
            /\ prodFailFrame' = nread + 1
            /\ \E k \in FailOffsets : srcPos' = srcPos + k
            /\ UNCHANGED <<pbuf, nread, source, from, pending, curFile, readLog>>
       ELSE LET r == ReadFrame(inFraming, source, srcPos) IN
            IF r.kind = "frame"
            THEN /\ srcPos' = r.pos
                 /\ pbuf' = r.buf
                 /\ nread' = nread + 1
                 /\ readLog' = Append(readLog, [file |-> curFile, from |-> from,
                                                buf |-> r.buf])
                 /\ prodPc' = "send"
                 /\ UNCHANGED <<prodErr, prodFailFrame, source, from, pending, curFile>>
            ELSE LET res == ClosureResult(IF r.kind = "eof" THEN "Eof" ELSE "Ok") IN
                 /\ IF res = "Ok"
                    THEN ReaderEnds(r.pos)
                    ELSE /\ prodPc' = "panicked"
                         /\ srcPos' = r.pos
                         /\ UNCHANGED <<source, from, pending, curFile>>
                 /\ prodErr' = res
                 /\ UNCHANGED <<pbuf, nread, prodFailFrame, readLog>>
    /\ UNCHANGED <<inFraming, outFraming, to, radix, srcFailAt, frames, srcEof, chan,
                   consVars, sinkVars, runVars, rtVars, setupVars, delimVars,
                   headerVars>>

\* tx.send(deserialize(&buf, from)?).unwrap() (panser.rs:414, 440, 462): a decode
\* error or a send on a channel whose receiver is gone panics the thread; after
\* an unframed source's only frame the thread ends.
P_Send ==
    /\ prodPc = "send"
    /\ LET d == Deserialize(pbuf, from) IN
       IF ~d.ok
       THEN /\ prodPc' = "panicked"
            /\ prodErr' = d.err
            /\ prodFailFrame' = nread
            /\ UNCHANGED <<chan, source, from, srcPos, pending, curFile>>
       ELSE IF ~ReceiverAlive
       THEN /\ prodPc' = "panicked"
            /\ prodErr' = "SendError"
            /\ UNCHANGED <<prodFailFrame, chan, source, from, srcPos, pending, curFile>>
       ELSE /\ chan' = Append(chan, [value |-> d.value, frame |-> nread])
            /\ IF inFraming.kind = "None"
               THEN ReaderEnds(srcPos)
               ELSE /\ prodPc' = "read"
                    /\ UNCHANGED <<source, from, srcPos, pending, curFile>>
            /\ UNCHANGED <<prodErr, prodFailFrame>>
    /\ UNCHANGED <<inFraming, outFraming, to, radix, srcFailAt, frames, srcEof, taken,
                   pbuf, nread, readLog, consVars, sinkVars, runVars, rtVars, setupVars,
                   delimVars, headerVars>>

(***************************************************************************)
(* The writing loop, write (panser.rs:502-539), on the thread of run.      *)
(***************************************************************************)
\* The framing handed to write (panser.rs:254) is the output framing.
WriterFramingIsInput == inFraming
WriterFraming == outFraming

\* rx.recv() (panser.rs:504): the oldest value in flight; it blocks while the
\* channel is empty and the sender lives, and fails (ending the loop) once the
\* channel is empty and the sender is gone.
RecvReadyNeverDisconnects == chan # <<>>
RecvReady == chan # <<>> \/ ~SenderAlive
RecvEndsOnDisconnect == ~SenderAlive
RecvEnds == chan = <<>>
RecvIndexNewest == Len(chan)
RecvIndex == 1

C_Recv ==
    /\ consPc = "recv"
    /\ RecvReady
    /\ IF RecvEnds
       THEN /\ consPc' = "ok"
            /\ UNCHANGED <<cur, chan>>
       ELSE /\ cur' = chan[RecvIndex]
            /\ chan' = [i \in 1..(Len(chan) - 1) |->
                           IF i < RecvIndex THEN chan[i] ELSE chan[i + 1]]
            /\ consPc' = "serialize"
    /\ UNCHANGED <<configVars, sourceVars, prodVars, enc, consErr, consFailFrame,
                   nwritten, sinkVars, runVars, rtVars, setupVars, delimVars,
                   headerVars>>

\* serialize(data, to)? (panser.rs:505).
C_Serialize ==
    /\ consPc = "serialize"
    /\ LET e == Serialize(cur.value, to) IN
       IF e.ok
       THEN /\ enc' = e.bytes
            /\ consPc' = IF WriterFraming.kind = "Sized" THEN "header" ELSE "data"
            /\ UNCHANGED <<consErr, consFailFrame>>
       ELSE /\ consPc' = "err"
            /\ consErr' = e.err
            /\ consFailFrame' = cur.frame
            /\ UNCHANGED enc
    /\ UNCHANGED <<configVars, sourceVars, prodVars, chan, cur, nwritten, sinkVars,
                   runVars, rtVars, setupVars, delimVars, headerVars>>

\* The byte counts a write call of the sink may accept of len offered bytes:
\* all of them, or, on a sink that accepts less, any prefix.
Accepted(len, single) == IF sinkShort /\ single THEN 0..len ELSE {len}

\* The end of the string write! hands to Write::write_all (panser.rs:478-484:
\* the numeral, then the space) that holds the byte at position p of the text.
PieceEnd(text, p) ==
    IF text[p] = 32 THEN p
    ELSE LET sp == {i \in (p + 1)..Len(text) : text[i] = 32} IN
         IF sp = {} THEN Len(text)
         ELSE (CHOOSE i \in sp : \A j \in sp : i <= j) - 1

\* One write call of the sink made by write_data or by write.  Without a radix
\* the call offers the data once and drops the count (panser.rs:487, 528): it
\* fails with an I/O error, or the bytes it accepts are appended for the
\* message in hand.  With a radix it is one call of the Write::write_all of a
\* write! (panser.rs:478-484), which offers what is left of the numeral or the
\* space: the call fails, accepts nothing (ErrorKind::WriteZero, an I/O error)
\* or its bytes are appended; the loop goes on when the text is written.
SinkCall(data, single, next) ==
    /\ IF single
       THEN /\ sinkCalls' = sinkCalls + 1
            /\ IF sinkFailAt = sinkCalls + 1
               THEN /\ consPc' = "err"
                    /\ consErr' = "Io"
                    /\ consFailFrame' = cur.frame
                    /\ UNCHANGED <<sink, sinkTag, markAt>>
               ELSE /\ \E n \in Accepted(Len(data), single) :
                          /\ sink' = sink \o SubSeq(data, 1, n)
                          /\ sinkTag' = sinkTag \o Repeat(cur.frame, n)
                          /\ markAt' = IF consPc = "marker"
                                       THEN markAt \cup ((Len(sink) + 1)..(Len(sink) + n))
                                       ELSE markAt
                    /\ consPc' = next
                    /\ UNCHANGED <<consErr, consFailFrame>>
            /\ UNCHANGED wdone
       ELSE IF data = <<>>
       THEN /\ consPc' = next
            /\ UNCHANGED <<sinkCalls, sink, sinkTag, consErr, consFailFrame, wdone,
                           markAt>>
       ELSE /\ sinkCalls' = sinkCalls + 1
            /\ UNCHANGED markAt
            /\ IF sinkFailAt = sinkCalls + 1
               THEN /\ consPc' = "err"
                    /\ consErr' = "Io"
                    /\ consFailFrame' = cur.frame
                    /\ wdone' = 0
                    /\ UNCHANGED <<sink, sinkTag>>
               ELSE \E n \in Accepted(PieceEnd(data, wdone + 1) - wdone, TRUE) :
                       IF n = 0
                       THEN /\ consPc' = "err"
                            /\ consErr' = "Io"
                            /\ consFailFrame' = cur.frame
                            /\ wdone' = 0
                            /\ UNCHANGED <<sink, sinkTag>>
                       ELSE /\ sink' = sink \o SubSeq(data, wdone + 1, wdone + n)
                            /\ sinkTag' = sinkTag \o Repeat(cur.frame, n)
                            /\ wdone' = IF wdone + n = Len(data) THEN 0 ELSE wdone + n
                            /\ consPc' = IF wdone + n = Len(data) THEN next ELSE consPc
                            /\ UNCHANGED <<consErr, consFailFrame>>
    /\ UNCHANGED <<configVars, sourceVars, prodVars, chan, cur, enc, nwritten, flushed,
                   sinkFailAt, sinkShort, runVars, rtVars, setupVars, delimVars,
                   headerVars>>

\* write_data(&mut writer, &frame_length, radix)? (panser.rs:506-515).
C_Header ==
    /\ consPc = "header"
    /\ SinkCall(WriteData(FrameHeader(enc, WriterFraming), radix), radix = "None", "data")

\* write_data(&mut writer, &encoded_data, radix)? (panser.rs:516).
C_Data ==
    /\ consPc = "data"
    /\ SinkCall(WriteData(enc, radix), radix = "None",
                IF WriterFraming.kind = "Delimited" THEN "marker" ELSE "flush")

\* writer.write(&[delimiter; 1])? (panser.rs:517-532).
C_MarkerDisplayed ==
    /\ consPc = "marker"
    /\ SinkCall(WriteData(FrameMarker(WriterFraming), radix), TRUE, "flush")
C_Marker ==
    /\ consPc = "marker"
    /\ SinkCall(FrameMarker(WriterFraming), TRUE, "flush")

\* writer.flush()? (panser.rs:533), then the next recv.
AfterFlushErrorIgnored == "recv"
AfterFlushError == "err"
C_FlushSkipped ==
    /\ consPc = "flush"
    /\ nwritten' = nwritten + 1
    /\ consPc' = "recv"
    /\ UNCHANGED <<configVars, sourceVars, prodVars, chan, cur, enc, consErr,
                   consFailFrame, sinkVars, runVars, rtVars, setupVars, delimVars,
                   headerVars>>
C_Flush ==
    /\ consPc = "flush"
    /\ sinkCalls' = sinkCalls + 1
    /\ IF sinkFailAt = sinkCalls + 1
       THEN /\ consPc' = AfterFlushError
            /\ consErr' = "Io"
            /\ consFailFrame' = cur.frame
            /\ UNCHANGED <<flushed, nwritten>>
       ELSE /\ flushed' = Len(sink)
            /\ nwritten' = nwritten + 1
            /\ consPc' = "recv"
            /\ UNCHANGED <<consErr, consFailFrame>>
    /\ UNCHANGED <<configVars, sourceVars, prodVars, chan, cur, enc, sink, sinkTag,
                   wdone, markAt, sinkFailAt, sinkShort, runVars, rtVars, setupVars, delimVars,
                   headerVars>>

(***************************************************************************)
(* Panser::run after the loop (panser.rs:254-256).                         *)
(***************************************************************************)
\* impl From<Box<Any + Send>> for Error (lib.rs:578-585): whatever the thread
\* panicked with, the error made of it is Error::Generic.
FromPanic(payload) == "Generic"

\* write(...)? returned an error: run returns it without joining the thread.
R_WriteErrJoins ==
    /\ runPc = "running"
    /\ consPc = "err"
    /\ ~SenderAlive
    /\ runPc' = "returned"
    /\ result' = consErr
    /\ returns' = returns + 1
    /\ UNCHANGED <<configVars, sourceVars, prodVars, chan, consVars, sinkVars, rtVars,
                   setupVars, delimVars, headerVars>>
R_WriteErr ==
    /\ runPc = "running"
    /\ consPc = "err"
    /\ runPc' = "returned"
    /\ result' = consErr
    /\ returns' = returns + 1
    /\ UNCHANGED <<configVars, sourceVars, prodVars, chan, consVars, sinkVars, rtVars,
                   setupVars, delimVars, headerVars>>

\* handle.join()?; Ok(()): the loop ended normally and the thread has ended.
R_JoinEarly ==
    /\ runPc = "running"
    /\ consPc = "ok" \/ prodPc = "panicked"
    /\ ~SenderAlive
    /\ runPc' = "returned"
    /\ result' = IF prodPc = "done" THEN "Ok" ELSE FromPanic(prodErr)
    /\ returns' = returns + 1
    /\ UNCHANGED <<configVars, sourceVars, prodVars, chan, consVars, sinkVars, rtVars,
                   setupVars, delimVars, headerVars>>
R_Join ==
    /\ runPc = "running"
    /\ consPc = "ok"
    /\ ~SenderAlive
    /\ runPc' = "returned"
    /\ result' = IF prodPc = "done" THEN "Ok" ELSE FromPanic(prodErr)
    /\ returns' = returns + 1
    /\ UNCHANGED <<configVars, sourceVars, prodVars, chan, consVars, sinkVars, rtVars,
                   setupVars, delimVars, headerVars>>

Producer == P_Read \/ P_Send
Consumer == C_Recv \/ C_Serialize \/ C_Header \/ C_Data \/ C_Marker \/ C_Flush
Run == R_WriteErr \/ R_Join

Next == Producer \/ Consumer \/ Run

Spec == Init /\ [][Next]_vars

\* The threads are scheduled by the operating system: a thread that can take
\* a step eventually takes it.
SpecLive ==
    /\ Init
    /\ [][Next]_vars
    /\ WF_vars(Producer)
    /\ WF_vars(Consumer)
    /\ WF_vars(Run)

(***************************************************************************)
(* A framing round trip: payloads are written as write frames them (no     *)
(* radix display, every sink call accepting all bytes), and the bytes      *)
(* written are then read back by the reading loop of the same framing,     *)
(* which hands every frame to the JSON decoder.                            *)
(***************************************************************************)
\* The characters 1 and newline: "1", "11", "1\n" and "\n1" are JSON numbers,
\* "", "\n" and "\n\n" are not JSON.
RtBytes == {49, Newline}
RtPayloadSet == SeqsUpTo(RtBytes, MaxRtLen)
RtModes == {Sized, Delimited(Newline), Delimited(49)}

InitRT ==
    /\ rtMode \in RtModes
    /\ rtPayloads \in SeqsUpTo(RtPayloadSet, MaxRtFrames)
    /\ rtWire = <<>>
    /\ rtWritten = 0
    /\ rtPos = 0
    /\ rtFrames = <<>>
    /\ rtPc = "write"
    /\ inFraming = rtMode
    /\ outFraming = rtMode
    /\ from = "Json"
    /\ to = "Msgpack"
    /\ radix = "None"
    /\ sinkShort = FALSE
    /\ frames = <<>>
    /\ source = <<>>
    /\ srcFailAt = 0
    /\ sinkFailAt = 0
    /\ OneSource
    /\ PipeStart
    /\ SetupDone
    /\ DelimIdle
    /\ HeaderIdle

\* The sink calls of one loop iteration of write (panser.rs:506-532) for the
\* next payload, or, after the last payload, the hand-over to the reader.
RtWrite ==
    /\ rtPc = "write"
    /\ IF rtWritten < Len(rtPayloads)
       THEN /\ rtWire' = rtWire \o FrameBytes(rtPayloads[rtWritten + 1], outFraming, radix)
            /\ rtWritten' = rtWritten + 1
            /\ UNCHANGED rtPc
       ELSE /\ rtPc' = "read"
            /\ UNCHANGED <<rtWire, rtWritten>>
    /\ UNCHANGED <<rtMode, rtPayloads, rtPos, rtFrames, pipeVars, setupVars,
                   delimVars, headerVars>>

\* One iteration of the reading loop (panser.rs:397-414, 426-441) on the bytes
\* written: the frame is the buffer the loop hands to deserialize; the value
\* is sent, or the decoder's error ends the loop.
RtRead ==
    /\ rtPc = "read"
    /\ LET r == ReadFrame(inFraming, rtWire, rtPos) IN
       /\ rtPos' = r.pos
       /\ IF r.kind = "frame"
          THEN /\ rtFrames' = Append(rtFrames, r.buf)
               /\ LET d == Deserialize(r.buf, from) IN
                  IF d.ok
                  THEN /\ chan' = Append(chan, [value |-> d.value,
                                                frame |-> Len(rtFrames) + 1])
                       /\ UNCHANGED <<rtPc, prodErr>>
                  ELSE /\ rtPc' = "failed"
                       /\ prodErr' = d.err
                       /\ UNCHANGED chan
          ELSE /\ rtPc' = "done"
               /\ UNCHANGED <<rtFrames, chan, prodErr>>
    /\ UNCHANGED <<rtMode, rtPayloads, rtWire, rtWritten, configVars, sourceVars,
                   prodPc, taken, pbuf, nread, prodFailFrame, readLog, consVars,
                   sinkVars, runVars, setupVars, delimVars, headerVars>>

NextRT == RtWrite \/ RtRead

SpecRT == InitRT /\ [][NextRT]_vars

(***************************************************************************)
(* The start of Panser::run (panser.rs:143-210), before the reading thread *)
(* is spawned: the input files are opened, the output file is created, and *)
(* then the framings are resolved from the builder's options.              *)
(***************************************************************************)
\* Largest number of input files.
MaxInputs == 2

\* The delimiter strings "0Ah", "zz", "256d" and "".
SetupDelimiters ==
    { NoString, SomeString(<<48, 65, 104>>), SomeString(<<122, 122>>),
      SomeString(<<50, 53, 54, 100>>), SomeString(<<>>) }

InitSetup ==
    /\ inputs \in 0..MaxInputs
    /\ files = [i \in 1..inputs |-> [ext |-> <<106, 115, 111, 110>>, msgs |-> <<>>]]
    /\ fromOpt = "None"
    /\ output \in BOOLEAN
    /\ delimitedInput \in SetupDelimiters
    /\ delimitedOutput \in SetupDelimiters
    /\ sizedInput \in BOOLEAN
    /\ sizedOutput \in BOOLEAN
    /\ inputMissing \in 0..inputs
    /\ outputDenied \in {FALSE, output}
    /\ setupPc = "readers"
    /\ opened = 0
    /\ created = FALSE
    /\ inFraming = NoFraming
    /\ outFraming = NoFraming
    /\ from = "Json"
    /\ to = "Msgpack"
    /\ radix = "None"
    /\ sinkShort = FALSE
    /\ frames = <<>>
    /\ source = <<>>
    /\ srcFailAt = 0
    /\ sinkFailAt = 0
    /\ OneSource
    /\ PipeStart
    /\ RtIdle
    /\ DelimIdle
    /\ HeaderIdle

\* The ? operator in run: the error is returned to the caller.
SetupFails(e) ==
    /\ setupPc' = "failed"
    /\ runPc' = "returned"
    /\ result' = e
    /\ returns' = returns + 1

\* The readers (panser.rs:146-157): every input file is opened, in order; the
\* first that cannot be opened ends run with an I/O error.
S_Readers ==
    /\ setupPc = "readers"
    /\ IF inputMissing # 0
       THEN /\ opened' = inputMissing - 1
            /\ SetupFails("Io")
       ELSE /\ opened' = inputs
            /\ setupPc' = "writer"
            /\ UNCHANGED runVars
    /\ UNCHANGED <<configVars, sourceVars, prodVars, chan, consVars, sinkVars, rtVars,
                   builderVars, fsVars, created, delimVars, headerVars>>

\* The writer (panser.rs:158-164): File::create creates or truncates the
\* output file.
S_Writer ==
    /\ setupPc = "writer"
    /\ IF output /\ outputDenied
       THEN /\ SetupFails("Io")
            /\ UNCHANGED created
       ELSE /\ created' = output
            /\ setupPc' = "inFraming"
            /\ UNCHANGED runVars
    /\ UNCHANGED <<configVars, sourceVars, prodVars, chan, consVars, sinkVars, rtVars,
                   builderVars, fsVars, opened, delimVars, headerVars>>

\* delimited.as_ref().map_or_else(|| sized ..., to_framing_delimited)
\* (panser.rs:197-203, 204-210): a delimiter string, when given, decides.
ResolveFraming(delimited, sized) ==
    IF delimited.some THEN ToFramingDelimited(delimited.s)
    ELSE FramingOk(IF sized THEN Sized ELSE NoFraming)

\* let input_framing = ...? (panser.rs:197-203).
S_InputFraming ==
    /\ setupPc = "inFraming"
    /\ LET r == ResolveFraming(delimitedInput, sizedInput) IN
       CASE r.kind = "ok" ->
                /\ inFraming' = r.framing
                /\ setupPc' = "outFraming"
                /\ UNCHANGED runVars
         [] r.kind = "err" ->
                /\ SetupFails(r.err)
                /\ UNCHANGED inFraming
         [] r.kind = "panic" ->
                /\ setupPc' = "panicked"
                /\ UNCHANGED <<inFraming, runVars>>
    /\ UNCHANGED <<outFraming, from, to, radix, sourceVars, prodVars, chan, consVars,
                   sinkVars, rtVars, builderVars, fsVars, opened, created, delimVars,
                   headerVars>>

\* let output_framing = ...? (panser.rs:204-210); the thread is spawned next.
S_OutputFraming ==
    /\ setupPc = "outFraming"
    /\ LET r == ResolveFraming(delimitedOutput, sizedOutput) IN
       CASE r.kind = "ok" ->
                /\ outFraming' = r.framing
                /\ setupPc' = "spawn"
                /\ UNCHANGED runVars
         [] r.kind = "err" ->
                /\ SetupFails(r.err)
                /\ UNCHANGED outFraming
         [] r.kind = "panic" ->
                /\ setupPc' = "panicked"
                /\ UNCHANGED <<outFraming, runVars>>
    /\ UNCHANGED <<inFraming, from, to, radix, sourceVars, prodVars, chan, consVars,
                   sinkVars, rtVars, builderVars, fsVars, opened, created, delimVars,
                   headerVars>>

NextSetup == S_Readers \/ S_Writer \/ S_InputFraming \/ S_OutputFraming

SpecSetup == InitSetup /\ [][NextSetup]_vars

(***************************************************************************)
(* One call of to_framing_delimited (panser.rs:376-385) on a delimiter     *)
(* string: a numeral of a value in one of the four radixes, with or        *)
(* without leading zeros, with or without a suffix, or some other string.  *)
(***************************************************************************)
\* Largest value written as a numeral (one more than a byte holds).
MaxNumeral == 256
\* Largest number of leading zeros.
MaxPad == 1

\* A numeral with its hexadecimal digits A to F in lower case.
LowerCase(s) == [i \in 1..Len(s) |-> IF s[i] \in 65..70 THEN s[i] + 32 ELSE s[i]]

\* The suffix letter of a radix: b, d, h, o.
SuffixLetter(base) ==
    CASE base = 2 -> 98 [] base = 10 -> 100 [] base = 16 -> 104 [] base = 8 -> 111

Meanings ==
    [value : 0..MaxNumeral, base : {2, 8, 10, 16}, lower : BOOLEAN, pad : 0..MaxPad,
     suffix : {"none", "lower", "upper"}]

\* The string of a meaning: zeros, the numeral, the suffix.
StringOf(m) ==
    LET digits == Numeral(m.value, m.base) IN
    Repeat(48, m.pad)
        \o (IF m.lower THEN LowerCase(digits) ELSE digits)
        \o CASE m.suffix = "none" -> <<>>
              [] m.suffix = "lower" -> <<SuffixLetter(m.base)>>
              [] m.suffix = "upper" -> <<SuffixLetter(m.base) - 32>>

\* The strings "", "h", "zz", "+1d" and "-1d".
OddStrings == { <<>>, <<104>>, <<122, 122>>, <<43, 49, 100>>, <<45, 49, 100>> }

InitDelim ==
    /\ \/ /\ dmeant \in {m \in Meanings : m.base = 16 \/ ~m.lower}
          /\ dstr = StringOf(dmeant)
       \/ /\ dmeant = NoMeaning
          /\ dstr \in OddStrings
    /\ dres = NoResult
    /\ dPc = "parse"
    /\ inFraming = NoFraming
    /\ outFraming = NoFraming
    /\ from = "Json"
    /\ to = "Msgpack"
    /\ radix = "None"
    /\ sinkShort = FALSE
    /\ frames = <<>>
    /\ source = <<>>
    /\ srcFailAt = 0
    /\ sinkFailAt = 0
    /\ OneSource
    /\ PipeStart
    /\ RtIdle
    /\ SetupDone
    /\ HeaderIdle

D_Parse ==
    /\ dPc = "parse"
    /\ dres' = ToFramingDelimited(dstr)
    /\ dPc' = "parsed"
    /\ UNCHANGED <<dstr, dmeant, pipeVars, rtVars, setupVars, headerVars>>

NextDelim == D_Parse

SpecDelim == InitDelim /\ [][NextDelim]_vars

(***************************************************************************)
(* The pipeline with a radix display (panser.rs:476-490): every run writes *)
(* its output as numerals.                                                 *)
(***************************************************************************)
Radixes == {"Binary", "Decimal", "Hexadecimal", "Octal"}
\* The messages "1", "{}" and "200".
DisplayPayloads == { <<49>>, <<LBrace, RBrace>>, <<50, 48, 48>> }

InitDisplay ==
    /\ inFraming \in InFramings
    /\ outFraming \in OutFramings
    /\ from = "Json"
    /\ to \in ToFormats
    /\ radix \in Radixes
    /\ sinkShort = FALSE
    /\ frames \in SeqsUpTo(DisplayPayloads, MaxFrames)
    /\ inFraming.kind = "None" => Len(frames) <= 1
    /\ source = SourceOf(frames, inFraming)
    /\ srcFailAt = 0
    /\ sinkFailAt = 0
    /\ OneSource
    /\ PipeStart
    /\ RtIdle
    /\ SetupDone
    /\ DelimIdle
    /\ HeaderIdle

SpecDisplay == InitDisplay /\ [][Next]_vars

(***************************************************************************)
(* The pipeline on a source that is still open (a pipe, a terminal): the   *)
(* source delivers its bytes one by one and may reach its end at any time, *)
(* or never.                                                               *)
(***************************************************************************)
InitStream ==
    /\ inFraming \in InFramings
    /\ outFraming \in OutFramings
    /\ from = "Json"
    /\ to \in ToFormats
    /\ radix = "None"
    /\ sinkShort = FALSE
    /\ frames \in SeqsUpTo(Payloads, MaxFrames)
    /\ inFraming.kind = "None" => Len(frames) <= 1
    /\ source = <<>>
    /\ srcEof = FALSE
    /\ pending = <<>>
    /\ srcFailAt = 0
    /\ sinkFailAt = 0
    /\ PipeStart
    /\ RtIdle
    /\ SetupDone
    /\ DelimIdle
    /\ HeaderIdle

\* The source delivers the next byte of its messages.
E_Deliver ==
    /\ ~srcEof
    /\ Len(source) < Len(SourceOf(frames, inFraming))
    /\ source' = Append(source, SourceOf(frames, inFraming)[Len(source) + 1])
    /\ UNCHANGED <<configVars, srcPos, srcFailAt, frames, srcEof, pending, curFile,
                   prodVars, chan, consVars, sinkVars, runVars, rtVars, setupVars,
                   delimVars, headerVars>>

\* The source reaches its end.
E_Close ==
    /\ ~srcEof
    /\ srcEof' = TRUE
    /\ UNCHANGED <<configVars, source, srcPos, srcFailAt, frames, pending, curFile,
                   prodVars, chan, consVars, sinkVars, runVars, rtVars, setupVars,
                   delimVars, headerVars>>

Source == E_Deliver \/ E_Close

\* The reading thread while its read call waits: with a source that is
\* complete from the start (Spec) the call never waits.
ProducerWaits == P_Take

NextStream == Producer \/ ProducerWaits \/ Consumer \/ Run \/ Source

\* The threads are scheduled fairly; nothing is assumed of the source.
SpecStream ==
    /\ InitStream
    /\ [][NextStream]_vars
    /\ WF_vars(Producer)
    /\ WF_vars(ProducerWaits)
    /\ WF_vars(Consumer)
    /\ WF_vars(Run)

(***************************************************************************)
(* The pipeline for each input format the model carries (panser.rs:        *)
(* 294-313): JSON, Hjson and Envy, set on the builder, and the builder     *)
(* without a format, which reads JSON.                                     *)
(***************************************************************************)
FromFormats == {"Json", "Hjson", "Envy"}

InitFormats ==
    /\ inFraming \in InFramings
    /\ outFraming \in OutFramings
    /\ fromOpt \in {"None"} \cup FromFormats
    /\ from = StdinFrom(fromOpt)
    /\ to \in ToFormats
    /\ radix = "None"
    /\ sinkShort = FALSE
    /\ frames \in SeqsUpTo(Payloads, MaxFrames)
    /\ inFraming.kind = "None" => Len(frames) <= 1
    /\ source = SourceOf(frames, inFraming)
    /\ srcFailAt = 0
    /\ sinkFailAt = 0
    /\ OneSource
    /\ PipeStart
    /\ RtIdle
    /\ StdinSetup
    /\ DelimIdle
    /\ HeaderIdle

SpecFormats == InitFormats /\ [][Next]_vars

(***************************************************************************)
(* The pipeline on several input files (panser.rs:146-183, 222-253): one   *)
(* reader and one input format per file, read one after the other by the   *)
(* reading thread.                                                         *)
(***************************************************************************)
\* Largest number of input files of a run, and of messages in one file.
MaxFiles == 2
MaxFileFrames == 2

\* str::to_lowercase on a name of ASCII characters (a name is the sequence of
\* its characters, each an ASCII code).
ToLowercase(name) ==
    [i \in 1..Len(name) |-> IF name[i] \in 65..90 THEN name[i] + 32 ELSE name[i]]

\* FromFormat::from_str (lib.rs:307-325): the name is lower-cased, then matched.
FromFormatFromStr(name) ==
    LET s == ToLowercase(name) IN
    CASE s = <<98, 105, 110, 99, 111, 100, 101>> -> "Bincode"    \* "bincode"
      [] s = <<99, 98, 111, 114>> -> "Cbor"    \* "cbor"
      [] s = <<101, 110, 118, 121>> -> "Envy"    \* "envy"
      [] s = <<104, 106, 115, 111, 110>> -> "Hjson"    \* "hjson"
      [] s = <<106, 115, 111, 110>> -> "Json"    \* "json"
      [] s = <<109, 115, 103, 112, 97, 99, 107>> -> "Msgpack"    \* "msgpack"
      [] s = <<112, 105, 99, 107, 108, 101>> -> "Pickle"    \* "pickle"
      [] s = <<116, 111, 109, 108>> -> "Toml"    \* "toml"
      [] s = <<117, 114, 108>> -> "Url"    \* "url"
      [] s = <<121, 97, 109, 108>> -> "Yaml"    \* "yaml"
      [] OTHER -> "NoMatch"

\* The input format of one file (panser.rs:165-183): the builder's format if
\* set, else the format its extension names, else JSON.
FromOf(explicit, ext) ==
    IF explicit # "None" THEN explicit
    ELSE IF FromFormatFromStr(ext) = "NoMatch" THEN "Json"
    ELSE FromFormatFromStr(ext)

\* The messages "1" and "{}"; the extensions of a.hjson, b.txt and c.HJSON.
FilePayloads == { <<49>>, <<LBrace, RBrace>> }
ExtHjson == <<104, 106, 115, 111, 110>>
ExtTxt == <<116, 120, 116>>
ExtHjsonUpper == <<72, 74, 83, 79, 78>>
FileExts == {ExtHjson, ExtTxt, ExtHjsonUpper}
FileSet ==
    {[ext |-> e, msgs |-> Repeat(p, k)] :
        e \in FileExts, p \in FilePayloads, k \in 0..MaxFileFrames}

\* readers.into_iter().zip(froms) (panser.rs:223).
ReadersOf(fs, explicit, framing) ==
    [i \in 1..Len(fs) |-> [bytes |-> SourceOf(fs[i].msgs, framing),
                           from |-> FromOf(explicit, fs[i].ext)]]

InitFiles ==
    /\ inFraming \in InFramings
    /\ outFraming \in {Sized, Delimited(Newline)}
    /\ to = "Msgpack"
    /\ radix = "None"
    /\ sinkShort = FALSE
    /\ fromOpt \in {"None", "Json"}
    /\ files \in UNION {[1..n -> FileSet] : n \in 1..MaxFiles}
    /\ inFraming.kind = "None" => \A i \in 1..Len(files) : Len(files[i].msgs) <= 1
    /\ inputs = Len(files)
    /\ frames = Flatten([i \in 1..Len(files) |-> files[i].msgs])
    /\ Len(frames) <= MaxFiles + 1
    /\ LET rs == ReadersOf(files, fromOpt, inFraming) IN
          /\ source = rs[1].bytes
          /\ from = rs[1].from
          /\ pending = Tail(rs)
    /\ srcEof = TRUE
    /\ srcFailAt = 0
    /\ sinkFailAt \in {0, 1}
    /\ output = FALSE
    /\ delimitedInput = DelimiterOption(inFraming)
    /\ delimitedOutput = DelimiterOption(outFraming)
    /\ sizedInput = (inFraming.kind = "Sized")
    /\ sizedOutput = (outFraming.kind = "Sized")
    /\ inputMissing = 0
    /\ outputDenied = FALSE
    /\ setupPc = "spawn"
    /\ opened = inputs
    /\ created = FALSE
    /\ PipeStart
    /\ RtIdle
    /\ DelimIdle
    /\ HeaderIdle

SpecFiles == InitFiles /\ [][Next]_vars

(***************************************************************************)
(* The pipeline on a source that is still open and a sink one of whose     *)
(* calls may fail: the writing loop can fail while the reading thread      *)
(* waits for bytes.                                                        *)
(***************************************************************************)
\* A number, which the Url encoder rejects, and a broken message, which the
\* JSON decoder rejects.
AbortPayloads == { <<49>>, <<LBrace>> }

InitAbort ==
    /\ inFraming \in InFramings
    /\ outFraming \in OutFramings
    /\ from = "Json"
    /\ to \in ToFormats
    /\ radix = "None"
    /\ sinkShort = FALSE
    /\ frames \in SeqsUpTo(AbortPayloads, MaxFrames)
    /\ inFraming.kind = "None" => Len(frames) <= 1
    /\ source = <<>>
    /\ srcEof = FALSE
    /\ pending = <<>>
    /\ srcFailAt = 0
    /\ sinkFailAt \in 0..(Len(frames) * CallsPerMessage(outFraming))
    /\ PipeStart
    /\ RtIdle
    /\ SetupDone
    /\ DelimIdle
    /\ HeaderIdle

\* The threads are scheduled fairly; nothing is assumed of the source.
SpecAbort ==
    /\ InitAbort
    /\ [][NextStream]_vars
    /\ WF_vars(Producer)
    /\ WF_vars(ProducerWaits)
    /\ WF_vars(Consumer)
    /\ WF_vars(Run)

(***************************************************************************)
(* The pipeline on a sink whose write call may accept fewer bytes than it  *)
(* is offered, as Write::write allows (a file at its size limit, a full    *)
(* disk, a non-blocking pipe).                                             *)
(***************************************************************************)
InitShort ==
    /\ inFraming \in InFramings
    /\ outFraming \in OutFramings
    /\ from = "Json"
    /\ to \in ToFormats
    /\ radix \in {"None", "Hexadecimal"}
    /\ sinkShort = TRUE
    /\ frames \in SeqsUpTo(Payloads, MaxFrames)
    /\ inFraming.kind = "None" => Len(frames) <= 1
    /\ source = SourceOf(frames, inFraming)
    /\ srcFailAt = 0
    /\ sinkFailAt = 0
    /\ OneSource
    /\ PipeStart
    /\ RtIdle
    /\ SetupDone
    /\ DelimIdle
    /\ HeaderIdle

SpecShort == InitShort /\ [][Next]_vars

(***************************************************************************)
(* The length header of one message (panser.rs:506-516) for payloads of    *)
(* any length a 64-bit usize holds.  A length is kept as two 16-bit halves *)
(* (hi, lo), so that lengths around 2^32 stay within the integers checked. *)
(***************************************************************************)
\* 2^16: the u32 of the header is two halves below it.
Half == 65536

\* encoded_data.len() as u32 (panser.rs:510): the low 32 bits of the length.
AsU32Saturating(len) ==
    IF len.hi >= Half THEN [hi |-> Half - 1, lo |-> Half - 1] ELSE len
AsU32(len) == [hi |-> len.hi % Half, lo |-> len.lo]

\* BigEndian::write_u32(&mut frame_length, n) (panser.rs:510).
WriteU32(n) == << n.hi \div 256, n.hi % 256, n.lo \div 256, n.lo % 256 >>

\* BigEndian read_u32 of four bytes (panser.rs:406), as halves.
ReadU32Halves(b) == [hi |-> b[1] * 256 + b[2], lo |-> b[3] * 256 + b[4]]

\* Lengths below, at and above 2^16, 2^31 and 2^32.
HeaderHis == {0, 1, 255, 256, 32767, 32768, Half - 1, Half, Half + 1, 2 * Half + 255}
HeaderLos == {0, 1, 23, 255, 256, Half - 1}

InitHeader ==
    /\ hLen \in [hi : HeaderHis, lo : HeaderLos]
    /\ hBytes = <<>>
    /\ hWritten = NoLength
    /\ hPc = "header"
    /\ inFraming = NoFraming
    /\ outFraming = Sized
    /\ from = "Json"
    /\ to = "Msgpack"
    /\ radix = "None"
    /\ sinkShort = FALSE
    /\ frames = <<>>
    /\ source = <<>>
    /\ srcFailAt = 0
    /\ sinkFailAt = 0
    /\ OneSource
    /\ PipeStart
    /\ RtIdle
    /\ SetupDone
    /\ DelimIdle

\* The Sized arm (panser.rs:508-511): the header is made of the length cast
\* to u32 and written; the cast has no failing case.
H_Header ==
    /\ hPc = "header"
    /\ hBytes' = WriteData(WriteU32(AsU32(hLen)), radix)
    /\ hPc' = "data"
    /\ UNCHANGED <<hLen, hWritten, pipeVars, rtVars, setupVars, delimVars>>

\* write_data(&mut writer, &encoded_data, radix)? (panser.rs:516): the whole
\* payload is offered, whatever the header says.
H_Data ==
    /\ hPc = "data"
    /\ hWritten' = hLen
    /\ hPc' = "done"
    /\ UNCHANGED <<hLen, hBytes, pipeVars, rtVars, setupVars, delimVars>>

NextHeader == H_Header \/ H_Data

SpecHeader == InitHeader /\ [][NextHeader]_vars

(***************************************************************************)
(* Vocabulary of the properties.                                           *)
(***************************************************************************)
IsPrefix(a, b) == Len(a) <= Len(b) /\ SubSeq(b, 1, Len(a)) = a

\* The source holds all bytes of its messages (it was not cut short).
Untruncated == source = SourceOf(frames, inFraming)
\* Nothing is wrong with the environment of the run.
Clean == Untruncated /\ srcFailAt = 0 /\ sinkFailAt = 0
\* A message decodes from the input format and encodes to the output format.
Transcodes(p) ==
    /\ Deserialize(p, from).ok
    /\ Serialize(Deserialize(p, from).value, to).ok
AllTranscode == \A i \in 1..Len(frames) : Transcodes(frames[i])
\* The encoded output payload of a message.
Encoded(p) == Serialize(Deserialize(p, from).value, to).bytes
\* The output of the first k messages, one framed message each, in order.
ExpectedSink(k) ==
    Flatten([i \in 1..k |-> FrameBytes(Encoded(frames[i]), outFraming, radix)])
\* The bytes the sink holds of message k.
MessageBytes(k) ==
    LET at == {i \in 1..Len(sinkTag) : sinkTag[i] = k} IN
    IF at = {} THEN <<>>
    ELSE SubSeq(sink, CHOOSE i \in at : \A j \in at : i <= j,
                      CHOOSE i \in at : \A j \in at : j <= i)
\* The offset in an untruncated source at which message k starts.
FrameStart(k) == Len(SourceOf(SubSeq(frames, 1, k - 1), inFraming))
\* The exit status main gives the result of run (main.rs:268-281).
ExitStatus == ErrorCode(result)

(***************************************************************************)
(* C1. When every frame reads, decodes, encodes and writes without error,  *)
(* then in every state of every interleaving the sink holds a prefix of    *)
(* the framed output messages of the input frames in source order, the     *)
(* bytes of the messages appear in frame order, and when run has returned  *)
(* it returned Ok and the sink holds exactly one message per frame.        *)
(***************************************************************************)
C1_OneMessagePerFrameInOrder ==
    (Clean /\ AllTranscode) =>
        /\ IsPrefix(sink, ExpectedSink(Len(frames)))
        /\ \A i \in 1..Len(sinkTag) : \A j \in i..Len(sinkTag) : sinkTag[i] <= sinkTag[j]
        /\ runPc = "returned" =>
              /\ result = "Ok"
              /\ sink = ExpectedSink(Len(frames))
              /\ nwritten = Len(frames)

\* Two different messages went through one run, in order.
C1_Witness ==
    /\ runPc = "returned"
    /\ Clean /\ AllTranscode
    /\ Len(frames) >= 2
    /\ frames[1] # frames[2]
    /\ inFraming.kind = "Delimited"
    /\ outFraming.kind = "Delimited"
    /\ sink = ExpectedSink(Len(frames))
    /\ Len(sink) > 2

(***************************************************************************)
(* C2. Once a failure has been observed for frame K (by the reading thread *)
(* or by the writing loop), the sink holds no byte of a frame after K, in  *)
(* every state from then on.                                               *)
(***************************************************************************)
C2_NoByteAfterFailedFrame ==
    \A k \in {prodFailFrame, consFailFrame} \ {0} :
        \A i \in 1..Len(sinkTag) : sinkTag[i] <= k

\* The loop failed on frame 1 while frame 2 had been read and sent already.
C2_Witness ==
    /\ runPc = "returned"
    /\ consFailFrame = 1
    /\ nread = 2
    /\ chan # <<>>
    /\ chan[1].frame = 2

(***************************************************************************)
(* C3. When run has returned the failure of frame K, the sink starts with  *)
(* the complete framed messages of all frames before K, these bytes have   *)
(* been flushed, and run returned once.                                    *)
(***************************************************************************)
ReturnedFailFrame == IF consPc = "err" THEN consFailFrame ELSE prodFailFrame

C3_EarlierFramesCompleteAndFlushed ==
    /\ returns <= 1
    /\ (runPc = "returned" /\ result # "Ok") =>
          LET K == ReturnedFailFrame
              before == ExpectedSink(K - 1)
          IN  /\ K >= 1
              /\ returns = 1
              /\ IsPrefix(before, sink)
              /\ \A i \in 1..Len(sink) : (sinkTag[i] < K) <=> (i <= Len(before))
              /\ flushed >= Len(before)

\* The reading thread failed on frame 2; frame 1 is in the sink, flushed.
C3_Witness ==
    /\ runPc = "returned"
    /\ result = "Generic"
    /\ prodFailFrame = 2
    /\ consPc = "ok"
    /\ sink # <<>>
    /\ sink = ExpectedSink(1)
    /\ flushed = Len(sink)

(***************************************************************************)
(* C4. Under fair scheduling a run without error eventually returns Ok;    *)
(* and whenever run has returned Ok the thread has ended, the loop has     *)
(* ended, the channel is empty and every frame read has been written.      *)
(***************************************************************************)
C4_CleanRunReturnsOk ==
    /\ (Clean /\ AllTranscode) => <>(runPc = "returned" /\ result = "Ok")
    /\ []((runPc = "returned" /\ result = "Ok") =>
            (prodPc = "done" /\ consPc = "ok" /\ chan = <<>> /\ nwritten = nread))

\* A run returned Ok after the loop drained two frames.
C4_Witness ==
    /\ runPc = "returned"
    /\ result = "Ok"
    /\ Clean
    /\ nread = 2
    /\ nwritten = 2
    /\ chan = <<>>

(***************************************************************************)
(* C5. run never returns Error::Eof; and when the source ends at a frame   *)
(* boundary and nothing else failed, run returns Ok and the exit status    *)
(* is 0, in each input framing mode.                                       *)
(***************************************************************************)
C5_EndOfStreamIsSuccess ==
    runPc = "returned" =>
        /\ result # "Eof"
        /\ (Clean /\ prodFailFrame = 0 /\ consErr = "Ok") =>
              (result = "Ok" /\ ExitStatus = 0)

\* A sized source ended after its only frame, where read_exact returns Eof.
C5_Witness ==
    /\ runPc = "returned"
    /\ inFraming.kind = "Sized"
    /\ Clean
    /\ Len(frames) = 1
    /\ nread = 1
    /\ srcPos = Len(source)
    /\ result = "Ok"

(***************************************************************************)
(* C6. With Sized input, a source that ends after 1, 2 or 3 bytes of a     *)
(* length header makes the run fail (the claim, which the code violates:   *)
(* it returns Ok).                                                         *)
(***************************************************************************)
TruncatedHeader ==
    /\ inFraming.kind = "Sized"
    /\ \E k \in 1..Len(frames) : Len(source) - FrameStart(k) \in 1..3

C6_TruncatedHeaderFails ==
    (runPc = "returned" /\ TruncatedHeader) => result # "Ok"

(***************************************************************************)
(* C7. With Sized input, a source that ends inside the body its last       *)
(* header declares makes the run fail, and no byte is written for that     *)
(* frame (the claim, which the code violates: it returns Ok).              *)
(***************************************************************************)
TruncatedBody(k) ==
    /\ inFraming.kind = "Sized"
    /\ Len(source) - FrameStart(k) \in 4..(3 + Len(frames[k]))

C7_TruncatedBodyFails ==
    \A k \in 1..Len(frames) :
        (runPc = "returned" /\ TruncatedBody(k)) =>
            (result # "Ok" /\ MessageBytes(k) = <<>>)

(***************************************************************************)
(* C8. With Sized output and no radix display, every message written is 4  *)
(* bytes holding the big-endian length of the encoded payload of its       *)
(* frame, followed by that payload.                                        *)
(***************************************************************************)
C8_SizedOutputHeader ==
    (outFraming.kind = "Sized" /\ radix = "None" /\ Untruncated) =>
        \A k \in 1..nwritten :
            LET m == MessageBytes(k)
                e == Encoded(frames[k])
            IN  /\ Len(m) = 4 + Len(e)
                /\ m[1] * 16777216 + m[2] * 65536 + m[3] * 256 + m[4] = Len(e)
                /\ SubSeq(m, 5, Len(m)) = e

\* The 2-byte input {} was encoded to the 1-byte 0x80: the header says 1.
C8_Witness ==
    /\ outFraming.kind = "Sized"
    /\ to = "Msgpack"
    /\ nwritten >= 1
    /\ frames[1] = <<LBrace, RBrace>>
    /\ Len(Encoded(frames[1])) # Len(frames[1])
    /\ SubSeq(sink, 1, 5) = <<0, 0, 0, 1, 128>>

(***************************************************************************)
(* C9. Sized framing round-trips frame by frame: the k-th frame the Sized  *)
(* reader hands to the decoder is the k-th payload written, the empty      *)
(* payload included.  The reader decodes each frame before it reads the    *)
(* next: the frames read are the payloads up to and including the first    *)
(* that is not of the input format, whose decode error ends the reading;   *)
(* only when every payload decodes are all of them read, each decoded and  *)
(* sent, followed by the end of the bytes.                                 *)
(***************************************************************************)
\* The payloads that are not JSON.
Undecodable == {i \in 1..Len(rtPayloads) : ~DecodeJson(rtPayloads[i]).ok}

C10_DelimitedRoundTrip ==
    (/\ rtMode.kind = "Delimited"
     /\ rtPc = "done"
     /\ \A i \in 1..Len(rtPayloads) : ~Contains(rtPayloads[i], rtMode.d))
        => rtFrames = rtPayloads

(***************************************************************************)
(* C11. With Delimited input, bytes read after the last marker when the    *)
(* source ends are handed on as the final frame: the reading loop ends     *)
(* only where zero bytes were left, having read one frame per marker plus  *)
(* one for an unterminated tail; the buffer of that last frame is the      *)
(* tail; and when the tail and the frames before it transcode and the sink *)
(* takes every call, run returns Ok with the tail's message written last.  *)
(***************************************************************************)
Markers == {i \in 1..Len(source) : source[i] = inFraming.d}
Unterminated ==
    /\ inFraming.kind = "Delimited"
    /\ source # <<>>
    /\ source[Len(source)] # inFraming.d
\* The bytes of the source after its last marker.
TailBytes ==
    LET from1 == IF Markers = {} THEN 1
                 ELSE 1 + CHOOSE i \in Markers : \A j \in Markers : j <= i
    IN  SubSeq(source, from1, Len(source))
FramesInSource == Cardinality(Markers) + (IF Unterminated THEN 1 ELSE 0)

C11_UnterminatedTailIsFinalFrame ==
    (inFraming.kind = "Delimited" /\ srcFailAt = 0) =>
        /\ prodPc = "done" => (srcPos = Len(source) /\ nread = FramesInSource)
        /\ (Unterminated /\ prodPc = "send" /\ nread = FramesInSource) =>
              pbuf = TailBytes
        /\ (/\ Unterminated
            /\ sinkFailAt = 0
            /\ runPc = "returned"
            /\ Transcodes(TailBytes)
            /\ \A i \in 1..Cardinality(Markers) : Transcodes(frames[i])) =>
              /\ result = "Ok"
              /\ nwritten = FramesInSource
              /\ MessageBytes(nwritten) = FrameBytes(Encoded(TailBytes), outFraming, radix)

\* The source 1 \n { } ends without a marker; both messages were written.
C11_Witness ==
    /\ runPc = "returned"
    /\ result = "Ok"
    /\ inFraming.kind = "Delimited"
    /\ source = <<49, Newline, LBrace, RBrace>>
    /\ Unterminated
    /\ nread = 2
    /\ nwritten = 2
    /\ to = "Msgpack"
    /\ MessageBytes(2) # <<>>

(***************************************************************************)
(* C12. With Delimited(d) output and no radix display, every message       *)
(* written is the encoded payload of its frame followed by the one byte d, *)
(* and whenever the loop is between messages, after at least one, the sink *)
(* ends with d.                                                            *)
(***************************************************************************)
C12_DelimitedOutputMessage ==
    (outFraming.kind = "Delimited" /\ radix = "None" /\ Untruncated) =>
        /\ \A k \in 1..nwritten :
              MessageBytes(k) = Encoded(frames[k]) \o <<outFraming.d>>
        /\ (nwritten >= 1 /\ consPc \in {"recv", "ok"}) =>
              (Len(sink) > 0 /\ sink[Len(sink)] = outFraming.d)

\* Two sized messages went out as payload and marker each.
C12_Witness ==
    /\ runPc = "returned"
    /\ inFraming.kind = "Sized"
    /\ outFraming.kind = "Delimited"
    /\ nwritten = 2
    /\ sink = <<1, Newline, 128, Newline>>

(***************************************************************************)
(* C13. With no input framing the source is read once, to its end, and all *)
(* of its bytes are one frame: at most one frame is read and at most one   *)
(* message is sent, the reading thread never reads again after the frame,  *)
(* and an empty source gives no frame, no output byte and a run that       *)
(* returns Ok.                                                             *)
(***************************************************************************)
C13_UnframedIsOneFrame ==
    inFraming.kind = "None" =>
        /\ nread <= 1
        /\ Len(chan) + (IF cur.frame # 0 THEN 1 ELSE 0) <= 1
        /\ nread = 1 => prodPc # "read"
        /\ prodPc = "send" => (pbuf = source /\ srcPos = Len(source))
        /\ (source = <<>> /\ srcFailAt = 0) =>
              /\ nread = 0
              /\ chan = <<>>
              /\ sink = <<>>
              /\ runPc = "returned" => result = "Ok"

\* The unframed source {} went through as one message.
C13_Witness ==
    /\ runPc = "returned"
    /\ result = "Ok"
    /\ inFraming.kind = "None"
    /\ source = <<LBrace, RBrace>>
    /\ nread = 1
    /\ nwritten = 1
    /\ to = "Msgpack"
    /\ outFraming.kind = "None"
    /\ sink = <<128>>

(***************************************************************************)
(* C14. The bytes around each output message depend on the output framing  *)
(* alone: header and payload for Sized, payload and marker for Delimited,  *)
(* the bare payload for none, whatever the input framing; and neither      *)
(* framing changes during a run.                                           *)
(***************************************************************************)
FramedAs(e, framing) ==
    CASE framing.kind = "Sized" -> BE32(Len(e)) \o e
      [] framing.kind = "Delimited" -> e \o <<framing.d>>
      [] framing.kind = "None" -> e

C14_FramingsIndependent ==
    /\ []((radix = "None" /\ Untruncated) =>
            \A k \in 1..nwritten :
                MessageBytes(k) = FramedAs(Encoded(frames[k]), outFraming))
    /\ [][inFraming' = inFraming /\ outFraming' = outFraming]_vars

\* Two delimited messages went out sized: headers, no marker.
C14_Witness ==
    /\ runPc = "returned"
    /\ inFraming.kind = "Delimited"
    /\ outFraming.kind = "Sized"
    /\ nwritten = 2
    /\ sink = <<0, 0, 0, 1, 1, 0, 0, 0, 1, 128>>

(***************************************************************************)
(* C15. An error raised in the reading thread reaches the caller of run    *)
(* with its kind and its code (the claim, which the code violates: join    *)
(* turns every such error into Error::Generic).                            *)
(***************************************************************************)
C15_ProducerErrorKeepsKind ==
    (runPc = "returned" /\ prodPc = "panicked" /\ consPc = "ok") =>
        (result = prodErr /\ ErrorCode(result) = ErrorCode(prodErr))

(***************************************************************************)
(* C16. The exit status of a run is the documented code of what went       *)
(* wrong: 0 for success, 1 for a decode or encode error, 3 for an I/O      *)
(* failure, in the reading thread as in the writing loop (the claim, which *)
(* the code violates: a failure of the reading thread exits with 2).       *)
(***************************************************************************)
\* The table of exit codes in the crate documentation (lib.rs:150-159).
DocumentedCode(kind) ==
    CASE kind = "Ok" -> 0
      [] kind \in {"Bincode", "Cbor", "Envy", "Json", "MsgpackDecode", "MsgpackEncode",
                   "Pickle", "TomlDecode", "TomlEncode", "UrlDecode", "UrlEncode",
                   "Yaml"} -> 1
      [] kind = "Generic" -> 2
      [] kind = "Io" -> 3
      [] kind = "ParseInt" -> 4
      [] kind = "Utf8" -> 5

\* What went wrong in the run that returned.
FailureCause ==
    IF consPc = "err" THEN consErr
    ELSE IF prodPc = "panicked" THEN prodErr
    ELSE "Ok"

C16_ExitStatusFollowsTable ==
    runPc = "returned" => ExitStatus = DocumentedCode(FailureCause)

(***************************************************************************)
(* C17. When run fails because a delimiter string is invalid, no input     *)
(* file has been opened and the output file has not been created (the      *)
(* claim, which the code violates: the files are opened and the output is  *)
(* created before the strings are parsed).                                 *)
(***************************************************************************)
C17_InvalidDelimiterBeforeIO ==
    (runPc = "returned" /\ result = "ParseInt") => (opened = 0 /\ ~created)

(***************************************************************************)
(* C18. The numeral of a byte value in radix 2, 10, 16 or 8, followed by   *)
(* b, d, h or o, parses to Delimited of that value, with upper or lower    *)
(* case digits and with or without leading zeros.                          *)
(***************************************************************************)
C18_SuffixSelectsRadix ==
    (dPc = "parsed" /\ dmeant.suffix = "lower" /\ dmeant.value <= U8Max) =>
        dres = FramingOk(Delimited(dmeant.value))

\* 012o is the byte 10.
C18_Witness ==
    /\ dPc = "parsed"
    /\ dstr = <<48, 49, 50, 111>>
    /\ dmeant.base = 8
    /\ dmeant.suffix = "lower"
    /\ dres = FramingOk(Delimited(Newline))

(***************************************************************************)
(* C19. A hexadecimal numeral of a byte value without suffix parses to     *)
(* Delimited of that value, also when its last digit is b or d (the claim, *)
(* which the code violates: a last b or d is taken as a radix suffix).     *)
(***************************************************************************)
C19_NoSuffixIsHexadecimal ==
    (/\ dPc = "parsed"
     /\ dmeant.suffix = "none"
     /\ dmeant.base = 16
     /\ dmeant.value <= U8Max) =>
        dres = FramingOk(Delimited(dmeant.value))

(***************************************************************************)
(* C20. A numeral followed by B, D, H or O parses to what the same numeral *)
(* followed by b, d, h or o parses to (the claim, which the code violates: *)
(* only the lower case letters are suffixes).                              *)
(***************************************************************************)
C20_SuffixCaseInsensitive ==
    (dPc = "parsed" /\ dmeant.suffix = "upper") =>
        dres = ToFramingDelimited(StringOf([dmeant EXCEPT !.suffix = "lower"]))

(***************************************************************************)
(* C21. The channel has a fixed capacity below the number of frames of a   *)
(* source: there is a capacity that the number of messages queued never    *)
(* exceeds (the claim, which the code violates: the channel is unbounded   *)
(* and holds every frame of the source when the loop has not yet run).     *)
(***************************************************************************)
C21_ChannelBounded ==
    \E capacity \in 1..(MaxFrames - 1) : [](Len(chan) <= capacity)

(***************************************************************************)
(* C22. With a radix display, the text written for a message is one        *)
(* numeral per byte of the header (if any) and of the encoded payload, in  *)
(* order, each numeral made of digits and upper case letters, having the   *)
(* byte as its value in the radix, and followed by one space.              *)
(***************************************************************************)
\* The pieces of a text that end at its spaces (and a last piece after the
\* last space, if the text does not end with one).
RECURSIVE TokensOf(_)
TokensOf(text) ==
    IF text = <<>> THEN <<>>
    ELSE LET sp == {i \in 1..Len(text) : text[i] = 32} IN
         IF sp = {} THEN <<text>>
         ELSE LET k == CHOOSE i \in sp : \A j \in sp : i <= j IN
              <<SubSeq(text, 1, k - 1)>> \o TokensOf(SubSeq(text, k + 1, Len(text)))

RendersAs(text, data, base) ==
    /\ text # <<>> => text[Len(text)] = 32
    /\ Len(TokensOf(text)) = Len(data)
    /\ \A i \in 1..Len(data) :
          LET tok == TokensOf(text)[i] IN
          /\ tok # <<>>
          /\ Len(tok) > 1 => tok[1] # 48
          /\ \A j \in 1..Len(tok) : tok[j] \in (48..57) \cup (65..70)
          /\ FromStrRadix(tok, base) = ParseOk(data[i])

\* The bytes of the sink at the positions at, in order.
RECURSIVE BytesAt(_)
BytesAt(at) ==
    IF at = {} THEN <<>>
    ELSE LET hi == CHOOSE i \in at : \A j \in at : j <= i IN
         Append(BytesAt(at \ {hi}), sink[hi])

\* The text of message k: the bytes write_data wrote for it (panser.rs:511,
\* 516), that is its bytes in the sink but the marker, if the marker call
\* (panser.rs:528) wrote one.
TextOf(k) == BytesAt({i \in 1..Len(sinkTag) : sinkTag[i] = k} \ markAt)

C22_RadixDisplay ==
    (radix # "None" /\ Untruncated) =>
        \A k \in 1..nwritten :
            LET e == Encoded(frames[k]) IN
            RendersAs(TextOf(k),
                      (IF outFraming.kind = "Sized" THEN BE32(Len(e)) ELSE <<>>) \o e,
                      RadixBase(radix))

\* The message 200 is CC C8 in MessagePack and was written as "CC C8 ".
C22_Witness ==
    /\ runPc = "returned"
    /\ radix = "Hexadecimal"
    /\ outFraming.kind = "None"
    /\ frames = << <<50, 48, 48>> >>
    /\ nwritten = 1
    /\ sink = <<67, 67, 32, 67, 56, 32>>

(***************************************************************************)
(* C23. With a hexadecimal display every byte is written as two digits     *)
(* (the claim, which the code violates: a byte below 0x10 is written as    *)
(* one digit, the length header of a one-byte payload as "0 0 0 1 ").      *)
(* Stated for the messages of Sized and unframed output, whose bytes in    *)
(* the sink are all numerals and spaces.                                   *)
(***************************************************************************)
C23_HexTwoDigits ==
    (radix = "Hexadecimal" /\ outFraming.kind # "Delimited" /\ Untruncated) =>
        \A k \in 1..nwritten :
            \A i \in 1..Len(TokensOf(MessageBytes(k))) :
                Len(TokensOf(MessageBytes(k))[i]) = 2

(***************************************************************************)
(* C24. With a radix display and Delimited(d) output, every message        *)
(* written ends with the raw byte d, and before it stands the text of the  *)
(* payload alone: one numeral per payload byte, none for the marker, and   *)
(* no other byte d.                                                        *)
(***************************************************************************)
C24_MarkerStaysRaw ==
    (radix # "None" /\ outFraming.kind = "Delimited" /\ Untruncated) =>
        \A k \in 1..nwritten :
            LET m == MessageBytes(k) IN
            /\ Len(m) >= 1
            /\ m[Len(m)] = outFraming.d
            /\ TextOf(k) = SubSeq(m, 1, Len(m) - 1)
            /\ ~Contains(TextOf(k), outFraming.d)
            /\ Len(TokensOf(TextOf(k))) = Len(Encoded(frames[k]))

\* The message 1 was written as "1 " and a raw newline.
C24_Witness ==
    /\ runPc = "returned"
    /\ radix = "Decimal"
    /\ outFraming.kind = "Delimited"
    /\ frames = << <<49>> >>
    /\ to = "Msgpack"
    /\ sink = <<49, 32, Newline>>

(***************************************************************************)
(* C25. With Sized or Delimited input, once frame i is complete in the     *)
(* source and the frames up to i transcode, message i is eventually        *)
(* written and flushed under fair scheduling of the threads, whether or    *)
(* not the source delivers more or ends; with no input framing nothing is  *)
(* written while the source is open.                                       *)
(***************************************************************************)
Processable(i) ==
    /\ inFraming.kind # "None"
    /\ i <= Len(frames)
    /\ Len(source) >= Len(SourceOf(SubSeq(frames, 1, i), inFraming))
    /\ \A j \in 1..i : Transcodes(frames[j])

WrittenAndFlushed(i) ==
    /\ nwritten >= i
    /\ IsPrefix(ExpectedSink(i), sink)
    /\ flushed >= Len(ExpectedSink(i))

C25_ProcessedAsTheyArrive ==
    /\ \A i \in 1..MaxFrames : Processable(i) ~> WrittenAndFlushed(i)
    /\ []((inFraming.kind = "None" /\ ~srcEof) => sink = <<>>)

\* The first of two sized frames is written and flushed while the reading
\* thread waits for the second, the source being open.
C25_Witness ==
    /\ ~srcEof
    /\ inFraming.kind = "Sized"
    /\ Len(frames) = 2
    /\ Len(source) = FrameStart(2)
    /\ prodPc = "read"
    /\ nwritten = 1
    /\ sink # <<>>
    /\ flushed = Len(sink)

(***************************************************************************)
(* C26. The reading thread puts each frame on the channel undecoded and    *)
(* the writing loop decodes it, so that a frame that does not decode       *)
(* fails in the loop (the claim, which the code violates: the reading      *)
(* thread decodes each frame before it sends, and a frame that does not    *)
(* decode panics that thread and never reaches the loop).                  *)
(***************************************************************************)
DecodeErrorKinds ==
    {"Bincode", "Cbor", "Envy", "Json", "MsgpackDecode", "Pickle", "TomlDecode",
     "UrlDecode", "Yaml"}

\* Frame k has been handed to deserialize.
Handled(k) == k <= nread /\ (k < nread \/ prodPc # "send")

C26_ConsumerDecodes ==
    /\ prodErr \notin DecodeErrorKinds
    /\ \A k \in 1..nread :
          (Handled(k) /\ ~DecodeJson(readLog[k].buf).ok /\ runPc = "returned") =>
              (consFailFrame = k /\ consErr \in DecodeErrorKinds)

(***************************************************************************)
(* C27. The sink is flushed once per message, before the next message is   *)
(* received: between messages every byte written is flushed and one flush  *)
(* succeeded per message received; while a message is being written the    *)
(* bytes of the messages before it are flushed; and a flush that fails     *)
(* ends the loop, run returning the I/O error.                             *)
(***************************************************************************)
FlushFailed ==
    /\ sinkFailAt > 0
    /\ sinkFailAt % CallsPerMessage(outFraming) = 0
    /\ sinkCalls >= sinkFailAt

C27_FlushPerMessage ==
    /\ consPc \in {"recv", "ok"} => (flushed = Len(sink) /\ nwritten = cur.frame)
    /\ consPc \in {"serialize", "header", "data", "marker", "flush"} =>
          /\ nwritten = cur.frame - 1
          /\ flushed = Cardinality({i \in 1..Len(sinkTag) : sinkTag[i] < cur.frame})
    /\ FlushFailed =>
          /\ consPc = "err"
          /\ consErr = "Io"
          /\ runPc = "returned" => (result = "Io" /\ ExitStatus = 3)

\* The flush of the second message failed; the first is written and flushed.
C27_Witness ==
    /\ runPc = "returned"
    /\ result = "Io"
    /\ FlushFailed
    /\ cur.frame = 2
    /\ nwritten = 1
    /\ flushed > 0
    /\ flushed < Len(sink)

(***************************************************************************)
(* C28. When the decode step fails for a frame, the reading thread fails   *)
(* with an error of the error type (the claim, which the code violates:    *)
(* the Envy arm of deserialize is unimplemented!() and panics).            *)
(***************************************************************************)
\* The variants of Error (lib.rs:421-456).
ErrorKinds ==
    {"Bincode", "Cbor", "Envy", "Eof", "Generic", "Io", "Json", "MsgpackDecode",
     "MsgpackEncode", "ParseInt", "Pickle", "TomlDecode", "TomlEncode", "Utf8",
     "UrlDecode", "UrlEncode", "Yaml"}

C28_DecodeFailsTyped ==
    (prodPc = "panicked" /\ prodFailFrame # 0) => prodErr \in ErrorKinds

(***************************************************************************)
(* C29. A builder with both sized and delimited framing set for one        *)
(* direction is rejected before any I/O (the claim, which the code         *)
(* violates: the delimiter string decides and the sized flag is ignored).  *)
(***************************************************************************)
Conflict ==
    \/ sizedInput /\ delimitedInput.some
    \/ sizedOutput /\ delimitedOutput.some

C29_ConflictRejected ==
    Conflict => (setupPc # "spawn" /\ opened = 0 /\ ~created)

(***************************************************************************)
(* C30. With several input files, every frame is decoded with the format   *)
(* of its file (the builder's format, else the one its extension names,    *)
(* else JSON), frames are read and written in the order of the files, the  *)
(* end of a file moves the reading thread to the next file, and a run      *)
(* whose sink takes every call returns Ok with the messages of all files   *)
(* written in file order.                                                  *)
(***************************************************************************)
FramesOfFile(f) == {k \in 1..Len(readLog) : readLog[k].file = f}

C30_FilesInOrder ==
    /\ \A k \in 1..Len(readLog) :
          /\ readLog[k].file \in 1..Len(files)
          /\ readLog[k].from = FromOf(fromOpt, files[readLog[k].file].ext)
          /\ fromOpt # "None" => readLog[k].from = fromOpt
          /\ fromOpt = "None" =>
                readLog[k].from = IF ToLowercase(files[readLog[k].file].ext) = ExtHjson
                                  THEN "Hjson" ELSE "Json"
          /\ \A l \in k..Len(readLog) : readLog[k].file <= readLog[l].file
    /\ \A i \in 1..Len(sinkTag) : \A j \in i..Len(sinkTag) :
          readLog[sinkTag[i]].file <= readLog[sinkTag[j]].file
    /\ prodPc = "done" => (curFile = Len(files) /\ pending = <<>>)
    /\ (runPc = "returned" /\ sinkFailAt = 0) =>
          /\ result = "Ok"
          /\ \A f \in 1..Len(files) : Cardinality(FramesOfFile(f)) = Len(files[f].msgs)
          /\ nwritten = Len(frames)
          /\ sink = Flatten([k \in 1..Len(frames) |->
                        FrameBytes(EncodeMsgpack(DecodeJson(frames[k]).value),
                                   outFraming, radix)])

\* a.HJSON and b.txt, no format set: the first file's messages were decoded
\* as Hjson, the second's as JSON, and written in that order.
C30_Witness ==
    /\ runPc = "returned"
    /\ result = "Ok"
    /\ Len(files) = 2
    /\ fromOpt = "None"
    /\ files[1].ext = ExtHjsonUpper
    /\ files[2].ext = ExtTxt
    /\ Len(files[1].msgs) = 2
    /\ Len(files[2].msgs) = 1
    /\ files[1].msgs[1] # files[2].msgs[1]
    /\ nwritten = 3
    /\ readLog[2].from = "Hjson"
    /\ readLog[3].from = "Json"
    /\ readLog[3].file = 2

(***************************************************************************)
(* C31. A delimiter string that cannot be converted to a byte (the empty   *)
(* string, a bare suffix, characters that are no digits, a value above     *)
(* 255) makes to_framing_delimited return the ParseInt error (the claim,   *)
(* which the code violates: the empty string panics at the unwrap of its   *)
(* last character).                                                        *)
(***************************************************************************)
\* The strings "", "h", "zz" and "-1d", and the numerals of 256 with a suffix.
Unconvertible ==
    \/ dmeant = NoMeaning /\ dstr \in { <<>>, <<104>>, <<122, 122>>, <<45, 49, 100>> }
    \/ dmeant # NoMeaning /\ dmeant.suffix = "lower" /\ dmeant.value > U8Max

C31_InvalidDelimiterIsParseInt ==
    (dPc = "parsed" /\ Unconvertible) => dres = FramingErr("ParseInt")

(***************************************************************************)
(* C32. With Delimited(d) framing nothing escapes the marker: every frame  *)
(* read from the bytes written ends at the first d after its start, and    *)
(* the loop ends only at the end of the bytes or with the decoder's error  *)
(* for a frame, never with a framing error; when it has ended at the end   *)
(* of the bytes there are as many frames as bytes d, each decoded and      *)
(* sent, and the frames of payloads of which one holds d are more than     *)
(* the payloads and differ from them with or without their markers.        *)
(***************************************************************************)
\* A frame without its last byte.
Stripped(f) == SubSeq(f, 1, Len(f) - 1)

MarkersWritten == Cardinality({i \in 1..Len(rtWire) : rtWire[i] = rtMode.d})

\* The bytes d in the first n payloads.
RECURSIVE MarkersInPayloads(_)
MarkersInPayloads(n) ==
    IF n = 0 THEN 0
    ELSE MarkersInPayloads(n - 1)
            + Cardinality({j \in 1..Len(rtPayloads[n]) : rtPayloads[n][j] = rtMode.d})

HoldsMarker == {i \in 1..Len(rtPayloads) : Contains(rtPayloads[i], rtMode.d)}

C32_MarkerInPayloadSplits ==
    rtMode.kind = "Delimited" =>
        /\ \A k \in 1..Len(rtFrames) :
              /\ rtFrames[k] # <<>>
              /\ rtFrames[k][Len(rtFrames[k])] = rtMode.d
              /\ ~Contains(Stripped(rtFrames[k]), rtMode.d)
        /\ IsPrefix(Flatten(rtFrames), rtWire)
        /\ rtPos = Len(Flatten(rtFrames))
        /\ rtPc = "read" => ReadFrame(inFraming, rtWire, rtPos).kind # "eof"
        /\ prodErr \in {"Ok", "Json"}
        /\ rtPc = "failed" => ~DecodeJson(rtFrames[Len(rtFrames)]).ok
        /\ rtPc = "done" =>
              /\ rtPos = Len(rtWire)
              /\ Len(rtFrames) = MarkersWritten
              /\ Len(rtFrames) = Len(rtPayloads) + MarkersInPayloads(Len(rtPayloads))
              /\ Len(chan) = Len(rtFrames)
              /\ HoldsMarker # {} =>
                    /\ Len(rtFrames) > Len(rtPayloads)
                    /\ rtFrames # rtPayloads
                    /\ [k \in 1..Len(rtFrames) |-> Stripped(rtFrames[k])] # rtPayloads

\* With the marker 1, the message 11 came back as three frames 1, each
\* decoded as the number 1.
C32_Witness ==
    /\ rtMode = Delimited(49)
    /\ rtPc = "done"
    /\ rtPayloads = << <<49, 49>> >>
    /\ rtFrames = << <<49>>, <<49>>, <<49>> >>
    /\ Len(chan) = 3
    /\ \A i \in 1..3 : chan[i].value = NumValue(1)

(***************************************************************************)
(* C33. When the writing loop fails, run returns the loop's error, kind    *)
(* and exit code unchanged, without waiting for the reading thread: it     *)
(* returns under fair scheduling of run alone, also when the source never  *)
(* delivers another byte; nothing is written to the sink after the         *)
(* failure, the result does not change after the return, and a send of the *)
(* reading thread on the closed channel only stops that thread.            *)
(***************************************************************************)
C33_ConsumerErrorReturnsAtOnce ==
    /\ []((consPc = "err" /\ runPc = "returned") =>
             /\ result = consErr
             /\ result \in {"Io", "UrlEncode"}
             /\ ExitStatus = DocumentedCode(consErr))
    /\ (consPc = "err") ~> (runPc = "returned")
    /\ [][consPc = "err" => (sink' = sink /\ flushed' = flushed /\ nwritten' = nwritten)]_vars
    /\ [][runPc = "returned" => (result' = result /\ returns' = returns)]_vars
    /\ [](prodErr = "SendError" => (prodPc = "panicked" /\ consPc = "err"))

\* run has returned the I/O error of the second message's sink call while
\* the reading thread waits for bytes of an open source.
C33_Witness ==
    /\ runPc = "returned"
    /\ consPc = "err"
    /\ result = "Io"
    /\ nwritten = 1
    /\ cur.frame = 2
    /\ ~srcEof
    /\ prodPc = "read"
    /\ ReadBlocks

(***************************************************************************)
(* C34. Every value the channel took is in the channel or was received by  *)
(* the loop.  run returns only when the writing loop has ended; a failure  *)
(* of the reading thread is returned only when the loop ended without      *)
(* error, after it received and wrote every message the thread had sent;   *)
(* when both the thread and the loop failed, the error returned is the     *)
(* loop's.                                                                 *)
(***************************************************************************)
\* The frames the reading thread decoded and the channel took: a send that
\* failed (the receiver gone, panser.rs:414, 440, 462) is that of the frame
\* read last.
Sent ==
    {k \in 1..nread : /\ Handled(k)
                       /\ Deserialize(readLog[k].buf, readLog[k].from).ok
                       /\ ~(prodErr = "SendError" /\ k = nread)}

C34_ProducerFailureReportedLast ==
    /\ Sent = {chan[i].frame : i \in 1..Len(chan)} \cup {k \in Sent : k <= cur.frame}
    /\ runPc = "returned" =>
        /\ consPc \in {"ok", "err"}
        /\ consPc = "err" => result = consErr
        /\ (consPc = "ok" /\ prodPc = "panicked") => result = FromPanic(prodErr)
        /\ result = "Generic" =>
              /\ consPc = "ok"
              /\ prodPc = "panicked"
              /\ chan = <<>>
              /\ nwritten = Cardinality(Sent)
              /\ flushed = Len(sink)

\* The thread failed on the second frame and the loop on the first message:
\* run returned the loop's I/O error.
C34_Witness ==
    /\ runPc = "returned"
    /\ prodPc = "panicked"
    /\ prodErr = "Json"
    /\ prodFailFrame = 2
    /\ consPc = "err"
    /\ consErr = "Io"
    /\ consFailFrame = 1
    /\ result = "Io"

(***************************************************************************)
(* C35. In a run that returns Ok, the sink holds every byte of every       *)
(* message written, header, payload and marker, also when a write call of  *)
(* the sink may accept fewer bytes than offered (the claim, which the code *)
(* violates: the count returned by writer.write is dropped, so the bytes   *)
(* a call did not accept are lost and the run goes on to return Ok).       *)
(***************************************************************************)
C35_EveryByteWritten ==
    (runPc = "returned" /\ result = "Ok") =>
        /\ nwritten = Len(frames)
        /\ \A k \in 1..nwritten :
              MessageBytes(k) = FrameBytes(Encoded(frames[k]), outFraming, radix)
        /\ sink = ExpectedSink(nwritten)

(***************************************************************************)
(* C36. The header of a Sized message is the payload length when the       *)
(* length is below 2^32, and the length modulo 2^32 when it is not; in     *)
(* both cases the whole payload is written after it, so for a length of    *)
(* 2^32 or more the header differs from the length of what follows.        *)
(***************************************************************************)
C36_HeaderIsLengthMod2To32 ==
    /\ hPc \in {"data", "done"} =>
          /\ Len(hBytes) = 4
          /\ hLen.hi < Half => ReadU32Halves(hBytes) = hLen
          /\ hLen.hi < Half \div 2 => hBytes = BE32(hLen.hi * Half + hLen.lo)
          /\ hLen.hi >= Half =>
                /\ ReadU32Halves(hBytes) = [hi |-> hLen.hi - Half * (hLen.hi \div Half),
                                            lo |-> hLen.lo]
                /\ ReadU32Halves(hBytes) # hLen
    /\ hPc = "done" => hWritten = hLen

\* A payload of 2^32 + 23 bytes was written whole behind the header 00 00 00 17.
C36_Witness ==
    /\ hPc = "done"
    /\ hLen = [hi |-> Half, lo |-> 23]
    /\ hBytes = <<0, 0, 0, 23>>
    /\ hWritten = hLen

====
